---------------------------- MODULE Spec2Model ----------------------------
(***************************************************************************)
(* Spec: scripts/run_discovery.ts, one run of the discovery script: the    *)
(* TARGET_URL guard and meta.json,                                         *)
(* getAuthCookies (optional scripted login), the docker probe, the ZAP     *)
(* container launch, readiness polling, the replacer rule, spider and ajax *)
(* spider polling, aggregation through filterSameOrigin (scripts/lib.ts),  *)
(* the urls.json artifact, the catch / finally blocks of main and the      *)
(* top-level main().catch handler.                                         *)
(*                                                                         *)
(* Strings written by the code are kept as the code writes them            *)
(* ("docker_unavailable", "zap_failed", "unexpected_error", "zap",         *)
(* "fallback").  The generatedAt timestamp of the artifact is left out: no *)
(* branch of the code reads it.  Every write of a file by the script may   *)
(* throw, and a write that throws leaves the file as it was.               *)
(*                                                                         *)
(* SpecFlow: scripts/build_flow.ts, one call of buildFlowArtifacts on the  *)
(* pages and ux counts of a report directory.  Strings are the strings of  *)
(* the code; toLowerCase, includes, trim, replace and join are computed    *)
(* character by character.                                                 *)
(*                                                                         *)
(* SpecCollector: scripts/run_playwright.ts, one run of the page-context   *)
(* collector: the url list, one loop iteration per url, the two files.     *)
(*                                                                         *)
(* SpecPublish: scripts/publish_reports.ts, runs of the publishing script on *)
(* report directories, with docs/reports as a tree of files and index.json. *)
(*                                                                         *)
(* SpecDashboard: the App component, its checkboxes, dispatchWorkflow and the *)
(* polling interval, with each awaited fetch as a message in flight.       *)
(*                                                                         *)
(* Each specification keeps the variables of the other programs at rest.   *)
(***************************************************************************)
EXTENDS Integers, Sequences, FiniteSets, TLC

VARIABLES
    authenticated,   \* process.env.AUTHENTICATED === "true"        (line 15)
    env,             \* the login variables of process.env that are set (truthy)
    targetUrl,       \* process.env.TARGET_URL                       (line 6)
    pc,              \* position of the run inside main / the top-level handler
    browserLaunches, \* chromium.launch calls that returned a browser
    browserCloses,   \* browser.close calls
    authReturn,      \* how getAuthCookies ended: uncalled / null / array / threw
    cookiesFile,     \* auth_cookies.json in reportDir: <<>> absent, <<cookies>> written
    cookieHeader,    \* main's cookieHeader: the "name=value" items joined by "; "
    containerStarted,\* main's containerStarted flag
    instanceExists,  \* whether the named container exists in docker
    teardownCalls,   \* number of `docker rm -f` invocations
    attempt,         \* `attempt` of the readiness loop; the counter is scoped to
                     \* the loop, and reads 0 again once `break` has left it
    ready,           \* main's ready flag
    rulesAdded,      \* replacer addRule requests issued
    spiderStatus,    \* last statusData.status of the spider ("" before any poll)
    ajaxStatus,      \* last statusData.status of the ajax spider
    coreUrls,        \* main's coreUrls: <<>> before line 174 assigns it, and again
                     \* once a throw has left the try block that declares it
    spiderUrls,      \* main's spiderUrls, likewise (line 178)
    urlsJson,        \* urls.json in reportDir
    metaJson,        \* meta.json in reportDir
    failedPhase,     \* the step whose exception was thrown ("none" if none)
    escaped          \* TRUE once main's promise rejected

\* scripts/build_flow.ts: one run of the flow synthesis
VARIABLES
    pages,           \* pagesData.pages read from pages.json
    uxCounts,        \* uxData.counts read from ux_checks.json
    flowPc,          \* "idle" before buildFlowArtifacts was called, "built" after
    flowArtifacts    \* the value buildFlowArtifacts returned

flowVars == << pages, uxCounts, flowPc, flowArtifacts >>

(* The page-context collector (run_playwright.ts, lines 236-452 of
   src/scripts/run_discovery.ts) *)
VARIABLES
    colPc,           \* position of the collector script
    urlsData,        \* the url fields of urlsData.urls read from urls.json
    maxPages,        \* Number(process.env.MAX_PAGES ?? 50)
    visitUrls,       \* the script's `urls` after line 256
    colIdx,          \* iterations of the for-of loop that were entered
    attempted,       \* the page.goto calls made: the url and whether the try block threw
    collected,       \* the script's `pages` array
    pagesJson,       \* pages.json in reportDir
    uxJson           \* ux_checks.json in reportDir

collectorVars == << colPc, urlsData, maxPages, visitUrls, colIdx, attempted,
                    collected, pagesJson, uxJson >>

(* Publishing (src/scripts/publish_reports.ts) *)
VARIABLES
    docsReports,     \* docs/reports: directory name -> the paths of the files below it
    indexJson,       \* docs/reports/index.json
    clock,           \* number of report directories created so far
    pubCount,        \* runs of publish_reports.ts
    lastRun          \* REPORT_DIR of the last run: its basename and its files

publishVars == << docsReports, indexJson, clock, pubCount, lastRun >>

(* The dashboard (App of src/unnamed/part_000) *)
VARIABLES
    token,           \* the token field
    uiTargetUrl,     \* the dashboard's targetUrl field
    uiAuthenticated, \* the dashboard's authenticated checkbox
    secretsConfirmed,\* the secrets-confirmed checkbox
    runState,        \* idle, dispatching, queued, in_progress, completed, failed
    runMessage,
    runInfo,         \* the matched workflow run, NoRun for null
    dispatches,      \* one record per dispatchWorkflow call that passed its guards
    polls,           \* the pollRuns calls that have not ended: their request is
                     \* sent, answered by the server, or its body being read
    ticks,           \* interval callbacks started in this behaviour
    serverRun        \* the newest run of the workflow on the server

dashVars == << token, uiTargetUrl, uiAuthenticated, secretsConfirmed, runState,
               runMessage, runInfo, dispatches, polls, ticks, serverRun >>

otherVars == << collectorVars, publishVars, dashVars >>

vars == << authenticated, env, targetUrl, pc, browserLaunches, browserCloses,
           authReturn, cookiesFile, cookieHeader, containerStarted,
           instanceExists, teardownCalls, attempt, ready, rulesAdded,
           spiderStatus, ajaxStatus, coreUrls, spiderUrls, urlsJson, metaJson,
           failedPhase, escaped, pages, uxCounts, flowPc, flowArtifacts,
           colPc, urlsData, maxPages, visitUrls, colIdx, attempted,
           collected, pagesJson, uxJson,
           docsReports, indexJson, clock, pubCount, lastRun,
           token, uiTargetUrl, uiAuthenticated, secretsConfirmed, runState,
           runMessage, runInfo, dispatches, polls, ticks, serverRun >>

---------------------------------------------------------------------------
(* Bounds *)

MaxUrls == 3       \* most urls the two engine responses carry together
MaxCookies == 2    \* most cookies a login harvests

(* Program constants *)

\* faulty variant: one probe short
ReadyAttemptsOneShort == 90 - 1

\* faulty variant: `attempt <= 90`, one probe too many
ReadyAttemptsOneMore == 90 + 1

\* line 126: `attempt < 90`
ReadyAttempts == 90

---------------------------------------------------------------------------
(* Inputs *)

RequiredFields ==
    {"LOGIN_URL", "ZAP_USER", "ZAP_PASS", "USER_FIELD", "PASS_FIELD", "SUBMIT_SELECTOR"}

\* The environments tried: nothing missing, exactly one variable missing,
\* two missing, all missing.
EnvChoices ==
    {RequiredFields} \cup {RequiredFields \ {f} : f \in RequiredFields}
        \cup {RequiredFields \ {"LOGIN_URL", "ZAP_PASS"}} \cup {{}}

TargetChoices == {"https://x/", "not a url"}

UrlChoices ==
    {"https://x/a", "https://x:443/a", "http://x/a", "https://y/a", "::bad"}

CookieChoices == { [name |-> "sid", value |-> "1"], [name |-> "", value |-> ""] }

SeqsUpTo(S, n) == UNION {[1..k -> S] : k \in 0..n}

\* what `new URL(u).origin` gives; "THROWS" when the constructor throws
URLOrigin(u) ==
    CASE u = "https://x/"      -> "https://x"
      [] u = "https://x/a"     -> "https://x"
      [] u = "https://x:443/a" -> "https://x"
      [] u = "https://x:8443/a" -> "https://x:8443"
      [] u = "http://x/a"      -> "http://x"
      [] u = "https://y/a"     -> "https://y"
      [] OTHER                 -> "THROWS"

---------------------------------------------------------------------------
(* Pure helpers *)

RECURSIVE SelectSameOrigin(_, _)
SelectSameOrigin(urls, origin) ==
    IF urls = <<>> THEN <<>>
    ELSE LET u == Head(urls)
             rest == SelectSameOrigin(Tail(urls), origin)
         IN  IF URLOrigin(u) # "THROWS" /\ URLOrigin(u) = origin
             THEN <<u>> \o rest ELSE rest

\* faulty variant: the origins are never compared, only unparsable urls go
RECURSIVE filterParsable(_, _)
filterParsable(urls, target) ==
    IF urls = <<>> THEN <<>>
    ELSE IF URLOrigin(Head(urls)) # "THROWS"
         THEN << Head(urls) >> \o filterParsable(Tail(urls), target)
         ELSE filterParsable(Tail(urls), target)

\* lib.ts filterSameOrigin; defined only when new URL(target) does not throw
filterSameOrigin(urls, target) == SelectSameOrigin(urls, URLOrigin(target))

filterSameOriginThrows(target) == URLOrigin(target) = "THROWS"

Range(s) == {s[i] : i \in 1..Len(s)}

\* Array.from(new Set(list)): first occurrences, in order (the list is split in
\* halves to keep the evaluation shallow)
RECURSIVE ArrayFromSet(_)
ArrayFromSet(list) ==
    IF Len(list) <= 1 THEN list
    ELSE LET half == Len(list) \div 2
             left == ArrayFromSet(SubSeq(list, 1, half))
             seen == Range(left)
             IsNew(x) == x \notin seen
         IN  left \o SelectSeq(ArrayFromSet(SubSeq(list, half + 1, Len(list))), IsNew)

\* cookies.map(c => `${c.name}=${c.value}`).join("; "), kept as the list of
\* joined items <<name, "=", value>>; the joined string is empty iff the list is
CookieHeaderOf(cookies) ==
    [i \in 1..Len(cookies) |-> << cookies[i].name, "=", cookies[i].value >>]

NoFile == [exists |-> FALSE]

\* faulty variant: the counts of the fallback document are left at zero
FallbackDocZeroCounts(target, reason) ==
    [ targetUrl |-> target,
      counts    |-> [total |-> 0, sameOrigin |-> 0],
      urls      |-> << [url |-> target, source |-> "fallback"] >>,
      forms     |-> <<>>,
      links     |-> <<>>,
      error     |-> reason ]

FallbackDoc(target, reason) ==
    [ targetUrl |-> target,
      counts    |-> [total |-> 1, sameOrigin |-> 1],
      urls      |-> << [url |-> target, source |-> "fallback"] >>,
      forms     |-> <<>>,
      links     |-> <<>>,
      error     |-> reason ]

\* faulty variant: the reason is dropped from the document
writeFallbackUrlsNoReason(reason) ==
    [ targetUrl |-> targetUrl,
      counts    |-> [total |-> 1, sameOrigin |-> 1],
      urls      |-> << [url |-> targetUrl, source |-> "fallback"] >>,
      forms     |-> <<>>,
      links     |-> <<>> ]

\* lines 68-81
writeFallbackUrls(reason) == FallbackDoc(targetUrl, reason)

\* faulty variant: the target is kept as a fallback entry in front of the engine's
SuccessDocWithTarget(target, urls, filtered) ==
    [ targetUrl |-> target,
      counts    |-> [total |-> Len(urls), sameOrigin |-> Len(filtered)],
      urls      |-> << [url |-> target, source |-> "fallback"] >>
                        \o [i \in 1..Len(filtered) |-> [url |-> filtered[i], source |-> "zap"]],
      forms     |-> <<>>,
      links     |-> <<>> ]

\* lines 183-193
SuccessDoc(target, urls, filtered) ==
    [ targetUrl |-> target,
      counts    |-> [total |-> Len(urls), sameOrigin |-> Len(filtered)],
      urls      |-> [i \in 1..Len(filtered) |-> [url |-> filtered[i], source |-> "zap"]],
      forms     |-> <<>>,
      links     |-> <<>> ]

---------------------------------------------------------------------------
\* the collector before it is started, with nothing to read and nothing written
CollectorAtRest ==
    /\ colPc = "start"
    /\ urlsData = <<>>
    /\ maxPages = 1
    /\ visitUrls = <<>>
    /\ colIdx = 0
    /\ attempted = <<>>
    /\ collected = <<>>
    /\ pagesJson = NoFile
    /\ uxJson = NoFile

\* nothing published yet
PublishAtRest ==
    /\ docsReports = <<>>
    /\ indexJson = NoFile
    /\ clock = 0
    /\ pubCount = 0
    /\ lastRun = [timestamp |-> "", tree |-> {}]

\* null, for runInfo and for the server before a run exists
NoRun == [id |-> 0]

\* the dashboard as useState leaves it (lines 39-59), with no token stored
DashboardAtRest ==
    /\ token = ""
    /\ uiTargetUrl = ""
    /\ uiAuthenticated = FALSE
    /\ secretsConfirmed = FALSE
    /\ runState = "idle"
    /\ runMessage = ""
    /\ runInfo = NoRun
    /\ dispatches = <<>>
    /\ polls = {}
    /\ ticks = 0
    /\ serverRun = NoRun

OthersAtRest == CollectorAtRest /\ PublishAtRest /\ DashboardAtRest

Init ==
    /\ authenticated \in BOOLEAN
    \* the login variables are read only by an authenticated run
    /\ env \in IF authenticated THEN EnvChoices ELSE {RequiredFields, {}}
    \* process.env.TARGET_URL: a target, or "" for a variable unset or empty
    /\ targetUrl \in TargetChoices \cup {""}
    /\ pc = "start"
    /\ browserLaunches = 0
    /\ browserCloses = 0
    /\ authReturn = "uncalled"
    /\ cookiesFile = <<>>
    /\ cookieHeader = <<>>
    /\ containerStarted = FALSE
    /\ instanceExists = FALSE
    /\ teardownCalls = 0
    /\ attempt = 0
    /\ ready = FALSE
    /\ rulesAdded = 0
    /\ spiderStatus = ""
    /\ ajaxStatus = ""
    /\ coreUrls = <<>>
    /\ spiderUrls = <<>>
    /\ urlsJson = NoFile
    /\ metaJson = NoFile
    /\ failedPhase = "none"
    /\ escaped = FALSE
    /\ pages = <<>>
    /\ uxCounts = <<>>
    /\ flowPc = "idle"
    /\ flowArtifacts = <<>>
    /\ OthersAtRest

authVars == << browserLaunches, browserCloses, authReturn, cookiesFile, cookieHeader >>
engineVars == << containerStarted, instanceExists, teardownCalls, attempt, ready,
                 rulesAdded, spiderStatus, ajaxStatus, coreUrls, spiderUrls >>
inputVars == << authenticated, env, targetUrl >>

---------------------------------------------------------------------------
(* the module body, lines 6-30 *)

\* lines 6-30: without TARGET_URL (!targetUrl, line 7: unset or empty) the
\* script prints "TARGET_URL is required." and exits with status 1; otherwise
\* the report directory and meta.json are written (lines 19-30; startedAt and
\* the options that no branch of the model reads are left out), and a throw
\* there ends the process before main is called
Startup ==
    /\ pc = "start"
    /\ IF targetUrl = ""
         THEN /\ pc' = "exit"
              /\ UNCHANGED metaJson
         ELSE \E written \in BOOLEAN :
                IF written
                  THEN /\ metaJson' = [ exists |-> TRUE, targetUrl |-> targetUrl,
                                        options |-> [authenticated |-> authenticated] ]
                       /\ pc' = "main"
                  ELSE /\ pc' = "crashed"
                       /\ UNCHANGED metaJson
    /\ UNCHANGED << flowVars, otherVars, inputVars, authVars, engineVars, urlsJson,
                    failedPhase, escaped >>

---------------------------------------------------------------------------
(* getAuthCookies, lines 32-66, and its call in main, lines 84-90 *)

\* faulty variant: the guard forgets SUBMIT_SELECTOR
SecretsMissingButSubmit(e) == \E f \in RequiredFields \ {"SUBMIT_SELECTOR"} : f \notin e

\* the guard of line 41: some required variable is unset or empty
SecretsMissing(e) == \E f \in RequiredFields : f \notin e

\* the steps of getAuthCookies that can throw ("none": nothing throws)
AuthFailPoints ==
    {"none", "launch", "newContext", "newPage", "goto", "fill", "click",
     "cookies", "writeJson", "close"}

\* steps inside the try block of lines 50-62, whose finally closes the browser
InsideTry == {"goto", "fill", "click", "cookies", "writeJson"}

\* the try of lines 50-65 has no catch clause: a throwing step rejects the call
AuthThrows(failAt) == failAt # "none"

\* chromium.launch returned a browser (line 46)
BrowserOpened(failAt) == failAt # "launch"

\* browser.close is called (line 64): only once the try block was entered
BrowserCloseCalled(failAt) == failAt \in InsideTry \cup {"none", "close"}

GetAuthCookies ==
    /\ pc = "main"
    /\ authenticated
    /\ IF SecretsMissing(env)
       THEN /\ authReturn' = "null"
            /\ cookieHeader' = <<>>
            /\ pc' = "probe"
            /\ UNCHANGED << browserLaunches, browserCloses, cookiesFile,
                            failedPhase, escaped >>
       ELSE \E failAt \in AuthFailPoints, softTimeout \in BOOLEAN,
               cookies \in SeqsUpTo(CookieChoices, MaxCookies) :
            /\ browserLaunches' = IF BrowserOpened(failAt) THEN browserLaunches + 1
                                  ELSE browserLaunches
            /\ browserCloses' = IF BrowserCloseCalled(failAt) THEN browserCloses + 1
                                ELSE browserCloses
            /\ failedPhase' = failAt
            /\ IF AuthThrows(failAt)
               THEN /\ authReturn' = "threw"
                    /\ escaped' = TRUE
                    /\ pc' = "rejected"
                    /\ cookiesFile' = IF failAt = "close" THEN << cookies >>
                                      ELSE cookiesFile
                    /\ UNCHANGED cookieHeader
               ELSE /\ authReturn' = "array"
                    /\ cookiesFile' = << cookies >>
                    /\ cookieHeader' = IF Len(cookies) > 0 THEN CookieHeaderOf(cookies)
                                       ELSE <<>>
                    /\ pc' = "probe"
                    /\ UNCHANGED escaped
    /\ UNCHANGED << flowVars, otherVars, inputVars, metaJson, engineVars, urlsJson >>

\* line 85 with authenticated false
SkipAuth ==
    /\ pc = "main"
    /\ ~authenticated
    /\ pc' = "probe"
    /\ UNCHANGED << flowVars, otherVars, inputVars, metaJson, authVars, engineVars, urlsJson, failedPhase, escaped >>

---------------------------------------------------------------------------
(* main, lines 92-206 *)

\* faulty variant: the `return` of line 97 is missing
AfterDockerInfoNoReturn(ok) == "launch"

\* where main continues after the probe: line 97 returns when it failed
AfterDockerInfo(ok) == IF ok THEN "launch" ELSE "done"

\* lines 92-98: execSync("docker info")
DockerInfo ==
    /\ pc = "probe"
    /\ \E ok \in BOOLEAN :
         IF ok
         THEN /\ pc' = AfterDockerInfo(ok)
              /\ UNCHANGED << urlsJson, failedPhase, escaped >>
         ELSE /\ failedPhase' = "probe"
              /\ \E written \in BOOLEAN :
                    IF written
                    THEN /\ urlsJson' = writeFallbackUrls("docker_unavailable")
                         /\ pc' = AfterDockerInfo(ok)
                         /\ UNCHANGED escaped
                    \* the write of line 96 throws out of the catch block
                    ELSE /\ pc' = "rejected"
                         /\ escaped' = TRUE
                         /\ UNCHANGED urlsJson
    /\ UNCHANGED << flowVars, otherVars, inputVars, metaJson, authVars, engineVars >>

\* faulty variant: the catch block logs and writes nothing
CatchWithoutFallback(phase) ==
    /\ failedPhase' = phase
    /\ pc' = "finally"
    /\ UNCHANGED urlsJson

\* the catch block of lines 194-197, entered from the phase that threw.  When
\* its own write throws, the finally block runs with that exception pending.
Catch(phase) ==
    /\ failedPhase' = phase
    /\ \E written \in BOOLEAN :
          IF written
          THEN /\ urlsJson' = writeFallbackUrls("zap_failed")
               /\ pc' = "finally"
          ELSE /\ pc' = "finallyThrown"
               /\ UNCHANGED urlsJson

\* lines 119-121: execSync("docker run -d ..."); a failing command may or may
\* not have created the named container
DockerRun ==
    /\ pc = "launch"
    /\ \E result \in {"ok", "failed", "failedAfterCreate"} :
         IF result = "ok"
         THEN /\ containerStarted' = TRUE
              /\ instanceExists' = TRUE
              /\ pc' = "waitReady"
              /\ UNCHANGED << urlsJson, failedPhase >>
         ELSE /\ instanceExists' = (result = "failedAfterCreate")
              /\ Catch("dockerRun")
              /\ UNCHANGED containerStarted
    /\ UNCHANGED << flowVars, otherVars, inputVars, metaJson, authVars, teardownCalls, attempt, ready, rulesAdded,
                    spiderStatus, ajaxStatus, coreUrls, spiderUrls, escaped >>

\* faulty variant: the rule is registered whatever the cookie header is
AfterReadyAlways(header) == "addRule"

\* line 143: the rule is registered only for a non-empty cookieHeader
AfterReady(header) == IF header # <<>> THEN "addRule" ELSE "spiderStart"

\* lines 125-141: one iteration of the readiness loop, and the check after it
ProbeReady ==
    /\ pc = "waitReady"
    /\ attempt < ReadyAttempts
    /\ \E response \in {"ok", "notOk", "throws"} :
         IF response = "ok"
         THEN /\ ready' = TRUE
              /\ attempt' = 0
              /\ pc' = AfterReady(cookieHeader)
              /\ UNCHANGED << urlsJson, failedPhase >>
         ELSE /\ attempt' = attempt + 1
              /\ UNCHANGED ready
              /\ IF attempt + 1 < ReadyAttempts
                 THEN UNCHANGED << pc, urlsJson, failedPhase >>
                 ELSE Catch("ready")
    /\ UNCHANGED << flowVars, otherVars, inputVars, metaJson, authVars, containerStarted, instanceExists,
                    teardownCalls, rulesAdded, spiderStatus, ajaxStatus, coreUrls,
                    spiderUrls, escaped >>

\* lines 143-146: fetch(replaceUrl); the response is not inspected
AddRule ==
    /\ pc = "addRule"
    /\ rulesAdded' = rulesAdded + 1
    /\ \E throws \in BOOLEAN :
         IF throws
         THEN Catch("addRule")
         ELSE /\ pc' = "spiderStart"
              /\ UNCHANGED << urlsJson, failedPhase >>
    /\ UNCHANGED << flowVars, otherVars, inputVars, metaJson, authVars, containerStarted, instanceExists,
                    teardownCalls, attempt, ready, spiderStatus, ajaxStatus,
                    coreUrls, spiderUrls, escaped >>

\* lines 148-151: start the spider scan and read the scan id
SpiderScan ==
    /\ pc = "spiderStart"
    /\ \E throws \in BOOLEAN :
         IF throws
         THEN Catch("spider")
         ELSE /\ pc' = "spiderPoll"
              /\ UNCHANGED << urlsJson, failedPhase >>
    /\ UNCHANGED << flowVars, otherVars, inputVars, metaJson, authVars, engineVars, escaped >>

\* faulty variant: any progress ends the loop
spiderDoneOnProgress(status) == status # "0"

\* line 158
spiderDone(status) == status = "100"

\* lines 153-159: one iteration of the spider status loop
SpiderStatus ==
    /\ pc = "spiderPoll"
    /\ \E response \in {"throws", "0", "50", "100"} :
         IF response = "throws"
         THEN /\ Catch("spider")
              /\ UNCHANGED spiderStatus
         ELSE /\ spiderStatus' = response
              /\ pc' = IF spiderDone(response) THEN "ajaxStart" ELSE "spiderPoll"
              /\ UNCHANGED << urlsJson, failedPhase >>
    /\ UNCHANGED << flowVars, otherVars, inputVars, metaJson, authVars, containerStarted, instanceExists,
                    teardownCalls, attempt, ready, rulesAdded, ajaxStatus, coreUrls,
                    spiderUrls, escaped >>

\* lines 161-162: start the ajax spider
AjaxScan ==
    /\ pc = "ajaxStart"
    /\ \E throws \in BOOLEAN :
         IF throws
         THEN Catch("ajax")
         ELSE /\ pc' = "ajaxPoll"
              /\ UNCHANGED << urlsJson, failedPhase >>
    /\ UNCHANGED << flowVars, otherVars, inputVars, metaJson, authVars, engineVars, escaped >>

\* line 169
ajaxDone(status) == status = "stopped"

\* lines 164-170: one iteration of the ajax status loop
AjaxStatus ==
    /\ pc = "ajaxPoll"
    /\ \E response \in {"throws", "running", "stopped"} :
         IF response = "throws"
         THEN /\ Catch("ajax")
              /\ UNCHANGED ajaxStatus
         ELSE /\ ajaxStatus' = response
              /\ pc' = IF ajaxDone(response) THEN "coreUrls" ELSE "ajaxPoll"
              /\ UNCHANGED << urlsJson, failedPhase >>
    /\ UNCHANGED << flowVars, otherVars, inputVars, metaJson, authVars, containerStarted, instanceExists,
                    teardownCalls, attempt, ready, rulesAdded, spiderStatus, coreUrls,
                    spiderUrls, escaped >>

\* `data.urls ?? []`: a missing list reads as the empty list
OrEmpty(present, list) == IF present THEN list ELSE <<>>

\* lines 172-174: fetch the engine's url list
CoreUrls ==
    /\ pc = "coreUrls"
    /\ \/ /\ Catch("aggregate")
          /\ UNCHANGED coreUrls
       \/ \E present \in BOOLEAN, list \in SeqsUpTo(UrlChoices, MaxUrls) :
            /\ coreUrls' = OrEmpty(present, list)
            /\ pc' = "spiderResults"
            /\ UNCHANGED << urlsJson, failedPhase >>
    /\ UNCHANGED << flowVars, otherVars, inputVars, metaJson, authVars, containerStarted, instanceExists,
                    teardownCalls, attempt, ready, rulesAdded, spiderStatus,
                    ajaxStatus, spiderUrls, escaped >>

\* line 180
UnionUrls(core, spider) == ArrayFromSet(core \o spider)

\* lines 176-193: fetch the spider's results, aggregate, write urls.json.  A
\* throw leaves the try block, and with it the scope of coreUrls and spiderUrls.
SpiderResults ==
    /\ pc = "spiderResults"
    /\ \/ /\ Catch("aggregate")
          /\ coreUrls' = <<>>
          /\ UNCHANGED spiderUrls
       \/ \E present \in BOOLEAN,
               list \in SeqsUpTo(UrlChoices, MaxUrls - Len(coreUrls)),
               writeThrows \in BOOLEAN :
            IF filterSameOriginThrows(targetUrl)
            THEN /\ Catch("aggregate")
                 /\ coreUrls' = <<>>
                 /\ UNCHANGED spiderUrls
            ELSE IF writeThrows
            THEN /\ Catch("write")
                 /\ coreUrls' = <<>>
                 /\ UNCHANGED spiderUrls
            ELSE LET urls == UnionUrls(coreUrls, OrEmpty(present, list))
                 IN  /\ spiderUrls' = OrEmpty(present, list)
                     /\ urlsJson' = SuccessDoc(targetUrl, urls,
                                               filterSameOrigin(urls, targetUrl))
                     /\ pc' = "finally"
                     /\ UNCHANGED << failedPhase, coreUrls >>
    /\ UNCHANGED << flowVars, otherVars, inputVars, metaJson, authVars, containerStarted, instanceExists,
                    teardownCalls, attempt, ready, rulesAdded, spiderStatus,
                    ajaxStatus, escaped >>

\* faulty variant: the teardown is tied to the success path
TeardownRunsOnSuccessOnly(started) == started /\ failedPhase = "none"

\* line 198: the teardown command runs only for a started container
TeardownRuns(started) == started

\* faulty variant: a failing `docker rm -f` rejects main
AfterTeardownRethrows(rmOk) == IF rmOk THEN "done" ELSE "rejected"

\* lines 199-203: the empty catch swallows a failing `docker rm -f`
AfterTeardown(rmOk) == "done"

\* how main ends after its finally block: it rejects with the exception the
\* catch block threw, if any
AfterFinally(at, normal) == IF at = "finallyThrown" THEN "rejected" ELSE normal

\* lines 197-205: the finally block
Finally ==
    /\ pc \in {"finally", "finallyThrown"}
    /\ IF TeardownRuns(containerStarted)
       THEN \E rmOk \in BOOLEAN :
            /\ teardownCalls' = teardownCalls + 1
            /\ instanceExists' = IF rmOk THEN FALSE ELSE instanceExists
            /\ pc' = AfterFinally(pc, AfterTeardown(rmOk))
       ELSE /\ pc' = AfterFinally(pc, "done")
            /\ UNCHANGED << teardownCalls, instanceExists >>
    /\ escaped' = (escaped \/ pc = "finallyThrown")
    /\ UNCHANGED << flowVars, otherVars, inputVars, metaJson, authVars, containerStarted, attempt, ready,
                    rulesAdded, spiderStatus, ajaxStatus, coreUrls, spiderUrls,
                    urlsJson, failedPhase >>

\* faulty variant: the top-level handler logs and writes nothing
TopLevelCatchLogsOnly ==
    /\ pc = "rejected"
    /\ pc' = "done"
    /\ UNCHANGED << flowVars, otherVars, inputVars, metaJson, authVars, engineVars, urlsJson, failedPhase, escaped >>

\* lines 208-211: main().catch.  A throw of its write is a rejection nobody
\* handles: the process ends with status 1.
TopLevelCatch ==
    /\ pc = "rejected"
    /\ \E written \in BOOLEAN :
          IF written
          THEN /\ urlsJson' = writeFallbackUrls("unexpected_error")
               /\ pc' = "done"
          ELSE /\ pc' = "crashed"
               /\ UNCHANGED urlsJson
    /\ UNCHANGED << flowVars, otherVars, inputVars, metaJson, authVars, engineVars, failedPhase, escaped >>

Next ==
    \/ Startup
    \/ GetAuthCookies
    \/ SkipAuth
    \/ DockerInfo
    \/ DockerRun
    \/ ProbeReady
    \/ AddRule
    \/ SpiderScan
    \/ SpiderStatus
    \/ AjaxScan
    \/ AjaxStatus
    \/ CoreUrls
    \/ SpiderResults
    \/ Finally
    \/ TopLevelCatch

Spec == Init /\ [][Next]_vars

\* the script keeps running: a step that can be taken is taken
FairSpec == Spec /\ WF_vars(Next)

TypeOK ==
    /\ pc \in {"start", "exit", "main", "probe", "launch", "waitReady", "addRule",
               "spiderStart", "spiderPoll", "ajaxStart", "ajaxPoll", "coreUrls",
               "spiderResults", "finally", "finallyThrown", "rejected", "done",
               "crashed"}
    /\ attempt \in 0..ReadyAttempts
    /\ teardownCalls \in 0..1

---------------------------------------------------------------------------
(* Properties of a discovery run *)

Written == urlsJson # NoFile
HasError == Written /\ "error" \in DOMAIN urlsJson
Returned == pc = "done"
MainEnded == pc \in {"done", "rejected", "crashed"}
\* the catch block of main, or the handler of the failed probe, wrote its document
HandlerWrote == pc = "finally" \/ (pc = "done" /\ ~escaped)
Success == pc \in {"finally", "done"} /\ failedPhase = "none"
WrittenUrls == [i \in 1..Len(urlsJson.urls) |-> urlsJson.urls[i].url]
AfterReadyPhases == {"addRule", "spider", "ajax", "aggregate", "write"}

SingleTargetEntry ==
    /\ Len(urlsJson.urls) = 1
    /\ urlsJson.urls[1].url = targetUrl
    /\ urlsJson.urls[1].source = "fallback"

WellFormedArtifact ==
    /\ Written
    /\ DOMAIN urlsJson \in { {"targetUrl", "counts", "urls", "forms", "links"},
                              {"targetUrl", "counts", "urls", "forms", "links", "error"} }
    /\ urlsJson.targetUrl = targetUrl
    /\ DOMAIN urlsJson.counts = {"total", "sameOrigin"}
    /\ urlsJson.counts.total \in Nat
    /\ urlsJson.counts.sameOrigin \in Nat
    /\ \A i \in 1..Len(urlsJson.urls) :
          /\ DOMAIN urlsJson.urls[i] = {"url", "source"}
          /\ urlsJson.urls[i].source \in {"fallback", "zap"}
    /\ urlsJson.forms = <<>>
    /\ urlsJson.links = <<>>

\* C1: in a run whose launch command succeeded, whichever later phase fails or
\* succeeds, `docker rm -f` has been invoked exactly once when main has ended
\* (returned, or rejected because the catch block's own write threw), not
\* before main's finally block, and it is never invoked a second time.
C1_TeardownExactlyOnce ==
    /\ teardownCalls <= 1
    /\ (MainEnded /\ containerStarted) => teardownCalls = 1
    /\ (containerStarted /\ ~MainEnded) => teardownCalls = 0

C1_Witness ==
    /\ Returned /\ containerStarted /\ teardownCalls = 1
    /\ failedPhase = "aggregate"

\* C2: whatever fails in the login, the probe, the launch, the readiness
\* polling, the engine requests or the aggregation, a run that ends with status
\* 0 has a well-formed urls.json, a rejection of main is always taken up by the
\* top-level handler, and a run whose main rejected ends with the fallback
\* document of reason unexpected_error.  The run ends otherwise only without
\* TARGET_URL, or when meta.json or the top-level handler's own document
\* cannot be written; no urls.json exists then.
C2_NeverRaises ==
    /\ pc = "rejected" => ENABLED TopLevelCatch
    /\ Returned => WellFormedArtifact
    /\ (Returned /\ escaped) =>
          /\ HasError /\ urlsJson.error = "unexpected_error"
          /\ SingleTargetEntry
    /\ (Returned /\ HasError /\ urlsJson.error = "unexpected_error") => escaped
    /\ pc = "exit" => (targetUrl = "" /\ ~Written)
    /\ pc = "crashed" => (~Written /\ (escaped \/ metaJson = NoFile))

C2_Witness ==
    /\ Returned /\ escaped /\ failedPhase = "newPage"
    /\ HasError /\ urlsJson.error = "unexpected_error"

\* C3 as stated: after a failed runtime probe the single fallback entry is
\* written with error "engine_unavailable", nothing is launched or torn down.
C3_Original ==
    (failedPhase = "probe" /\ HandlerWrote) =>
        /\ Written /\ SingleTargetEntry
        /\ HasError /\ urlsJson.error = "engine_unavailable"
        /\ ~containerStarted /\ ~instanceExists /\ teardownCalls = 0

\* C3 as amended: after a failed runtime probe main has ended, no container was
\* launched and no teardown attempted; the run has returned with exactly one
\* url entry, the target with source "fallback", and error "docker_unavailable",
\* unless the write of that document threw and main rejected.
C3_ProbeFailure ==
    failedPhase = "probe" =>
        /\ MainEnded
        /\ ~containerStarted /\ ~instanceExists /\ teardownCalls = 0
        /\ ~escaped =>
              /\ Returned
              /\ Written /\ SingleTargetEntry
              /\ HasError /\ urlsJson.error = "docker_unavailable"
        /\ (escaped /\ Written) => urlsJson.error = "unexpected_error"

C3_Witness ==
    /\ failedPhase = "probe" /\ Returned
    /\ HasError /\ urlsJson.error = "docker_unavailable"

\* C4: every fallback document, whatever its reason, has exactly one url entry,
\* the target with source "fallback", and counts total = 1 and sameOrigin = 1;
\* and every failed phase leaves such a document.
C4_FallbackShape ==
    /\ (HasError \/ (Written /\ \E i \in 1..Len(urlsJson.urls) :
                                    urlsJson.urls[i].source = "fallback")) =>
          /\ SingleTargetEntry
          /\ urlsJson.counts.total = 1
          /\ urlsJson.counts.sameOrigin = 1
    /\ (Returned /\ failedPhase # "none") => HasError

C4_Witness ==
    /\ Returned /\ failedPhase = "dockerRun"
    /\ HasError /\ SingleTargetEntry /\ urlsJson.counts.total = 1

\* C5: on a successful run the written urls are exactly the urls of the two
\* fetched lists whose origin parses and equals the target's, each once, and
\* counts.sameOrigin = number of entries <= counts.total = number of distinct
\* urls in the two lists.
C5_Aggregation ==
    Success =>
        LET union == Range(coreUrls) \cup Range(spiderUrls)
            W == WrittenUrls
        IN  /\ Written /\ ~HasError
            /\ Range(W) = {u \in union : /\ URLOrigin(u) # "THROWS"
                                          /\ URLOrigin(u) = URLOrigin(targetUrl)}
            /\ \A i, j \in 1..Len(W) : W[i] = W[j] => i = j
            /\ urlsJson.counts.sameOrigin = Len(W)
            /\ urlsJson.counts.total = Cardinality(union)
            /\ urlsJson.counts.sameOrigin <= urlsJson.counts.total

C5_Witness ==
    /\ Success /\ Returned
    /\ coreUrls = << "https://x/a", "::bad" >>
    /\ spiderUrls = << "https://x/a" >>
    /\ WrittenUrls = << "https://x/a" >>
    /\ urlsJson.counts.total = 2

\* C6 as stated: the final document carries error iff the run failed, and the
\* error is one of engine_unavailable, ready_timeout, scan_failed,
\* unexpected_error.
C6_Original ==
    Returned =>
        /\ HasError <=> failedPhase # "none"
        /\ HasError => urlsJson.error \in
              {"engine_unavailable", "ready_timeout", "scan_failed", "unexpected_error"}

\* C6 as amended: the final document carries error iff the run failed; the
\* error is then one of docker_unavailable, zap_failed, unexpected_error, and a
\* document with zap-sourced entries never carries error.
C6_ErrorField ==
    /\ Returned =>
          /\ HasError <=> failedPhase # "none"
          /\ HasError => urlsJson.error \in
                {"docker_unavailable", "zap_failed", "unexpected_error"}
    /\ (Written /\ \E i \in 1..Len(urlsJson.urls) : urlsJson.urls[i].source = "zap")
          => ~HasError

C6_Witness ==
    /\ Returned /\ failedPhase = "ajax"
    /\ HasError /\ urlsJson.error = "zap_failed"

\* C7 as stated: when all 90 readiness probes failed the fallback reason is
\* ready_timeout, and the teardown has run when the run returns.
C7_Original ==
    (failedPhase = "ready" /\ HandlerWrote) =>
        /\ HasError /\ urlsJson.error = "ready_timeout"
        /\ Returned => teardownCalls = 1

\* C7 as amended: when the container was started and all 90 readiness probes
\* failed, the catch block's fallback document, once written, has the reason
\* zap_failed, the reason also written for a failure during scanning, and the
\* teardown has run once when main has ended.
C7_ReadyExhausted ==
    /\ failedPhase = "ready" =>
          /\ attempt = 90 /\ ~ready /\ containerStarted
          /\ pc \in {"finally", "finallyThrown"} \/ MainEnded
          /\ HandlerWrote =>
                (HasError /\ urlsJson.error = "zap_failed" /\ SingleTargetEntry)
          /\ MainEnded => teardownCalls = 1
    /\ (pc = "waitReady" /\ attempt < 90) => ~HasError

C7_Witness ==
    /\ Returned /\ failedPhase = "ready" /\ attempt = 90
    /\ teardownCalls = 1

\* C8 as stated: an exception after the engine is ready ends the run in a
\* fallback document with reason scan_failed, and the teardown has run.
C8_Original ==
    (failedPhase \in AfterReadyPhases /\ HandlerWrote) =>
        /\ HasError /\ urlsJson.error = "scan_failed"
        /\ Returned => teardownCalls = 1

\* C8 as amended: an exception raised while registering the rule, during the
\* spider scan, the ajax spider pass, aggregation or the result write takes the
\* run to the catch block, whose fallback document, once written, has the
\* reason zap_failed, and the teardown has run once when main has ended.
C8_ScanFailure ==
    failedPhase \in AfterReadyPhases =>
        /\ ready /\ containerStarted
        /\ pc \in {"finally", "finallyThrown"} \/ MainEnded
        /\ HandlerWrote =>
              (HasError /\ urlsJson.error = "zap_failed" /\ SingleTargetEntry)
        /\ MainEnded => teardownCalls = 1

C8_Witness ==
    /\ Returned /\ failedPhase = "spider" /\ spiderStatus = "50"
    /\ teardownCalls = 1 /\ HasError

\* C9: getAuthCookies called with any required variable unset returns null
\* without throwing and without launching a browser; no cookie header is built,
\* no rule is registered and the run goes on to the probe and a public crawl:
\* if main rejects later, it is for a later phase, not for the login.
C9_MissingSecrets ==
    (authReturn # "uncalled" /\ env # RequiredFields) =>
        /\ authReturn = "null"
        /\ browserLaunches = 0 /\ browserCloses = 0
        /\ cookiesFile = <<>> /\ cookieHeader = <<>> /\ rulesAdded = 0
        /\ pc \notin {"start", "exit", "main"}
        /\ pc = "probe" => ~escaped
        /\ failedPhase \notin AuthFailPoints \ {"none"}
        /\ escaped => failedPhase # "none"

C9_Witness ==
    /\ authReturn = "null" /\ env = RequiredFields \ {"SUBMIT_SELECTOR"}
    /\ Success /\ Returned /\ Len(urlsJson.urls) = 2

\* C10: a failing navigation to the login url makes getAuthCookies return
\* null; nothing reaches main, which goes on to the probe and a public crawl.
\* Violated: page.goto (line 51) is in a try without a catch and the call of
\* line 86 is outside main's try, so the rejection ends main before the probe.
C10_Original ==
    failedPhase = "goto" =>
        /\ authReturn = "null"
        /\ ~escaped
        /\ pc # "rejected"

\* C11: every call of getAuthCookies that opened a browser has closed it exactly
\* once when it returns or throws, whichever step failed.  Violated: newContext
\* and newPage (lines 47-48) run before the try whose finally closes the browser.
C11_Original ==
    (authReturn \in {"array", "threw"} /\ browserLaunches = 1) => browserCloses = 1

\* C23: every run that reached the launch command has invoked the teardown
\* exactly once when it returns, also when the launch command itself failed.
\* Violated: containerStarted is set only after a successful `docker run` (line
\* 121), so a failing launch skips `docker rm -f` even if the container exists.
C23_Original ==
    (Returned /\ (containerStarted \/ failedPhase = "dockerRun")) => teardownCalls = 1

\* C24: a failing teardown is not re-raised: the step ends the run normally and
\* leaves urls.json as it was, and a returned run writes nothing more.  With
\* an exception of the catch block pending, main rejects with that exception
\* as it does after a teardown that succeeded.
C24_TeardownFailureSwallowed ==
    [][ /\ (pc = "finally" /\ teardownCalls' = teardownCalls + 1 /\ instanceExists')
            => (pc' = "done" /\ urlsJson' = urlsJson /\ escaped' = escaped)
        /\ (pc = "finallyThrown" /\ teardownCalls' = teardownCalls + 1)
            => (pc' = "rejected" /\ urlsJson' = urlsJson)
        /\ pc = "done" => urlsJson' = urlsJson ]_vars

C24_Witness ==
    /\ Returned /\ teardownCalls = 1 /\ instanceExists
    /\ failedPhase = "none" /\ Written /\ ~HasError

EnginePhases ==
    {"addRule", "spiderStart", "spiderPoll", "ajaxStart", "ajaxPoll", "coreUrls",
     "spiderResults"}

\* C25: at most 90 health probes are issued, polling stops with the first OK
\* response, and without an OK response no later engine request is issued.
C25_ReadinessPolling ==
    /\ attempt <= 90
    /\ pc = "waitReady" => ~ready
    /\ failedPhase = "ready" => ~ready
    /\ ~ready =>
          /\ pc \notin EnginePhases
          /\ failedPhase \notin AfterReadyPhases
          /\ rulesAdded = 0
          /\ spiderStatus = "" /\ ajaxStatus = ""
          /\ coreUrls = <<>> /\ spiderUrls = <<>>
          /\ ~(Written /\ ~HasError)

C25_Witness ==
    /\ Returned /\ failedPhase = "ready" /\ attempt = 90 /\ ~ready
    /\ rulesAdded = 0 /\ spiderStatus = ""

\* C26: the ajax spider is started only after a spider status of "100", the
\* aggregation requests are issued only after an ajax status of "stopped", and
\* the success document is written only by the step that got the second list.
C26_PhaseOrder ==
    /\ (pc \in {"ajaxStart", "ajaxPoll"} \/ failedPhase = "ajax" \/ ajaxStatus # "")
          => spiderStatus = "100"
    /\ (pc \in {"coreUrls", "spiderResults"} \/ failedPhase \in {"aggregate", "write"})
          => (spiderStatus = "100" /\ ajaxStatus = "stopped")
    /\ (Written /\ ~HasError)
          => /\ pc \in {"finally", "done"}
             /\ failedPhase = "none"
             /\ spiderStatus = "100" /\ ajaxStatus = "stopped"
             /\ \A i \in 1..Len(urlsJson.urls) :
                   urlsJson.urls[i].url \in Range(coreUrls) \cup Range(spiderUrls)

C26_Witness ==
    /\ Returned /\ Success /\ Written /\ ~HasError
    /\ spiderStatus = "100" /\ ajaxStatus = "stopped"
    /\ coreUrls # <<>> /\ spiderUrls # <<>>

HasCookies == authenticated /\ authReturn = "array" /\ Len(cookiesFile[1]) >= 1

PastRule ==
    \/ pc \in EnginePhases \ {"addRule"}
    \/ failedPhase \in {"spider", "ajax", "aggregate", "write"}
    \/ Success

\* an authenticated run whose login gave no cookie: null, or an empty array
NoCookieRun == authenticated /\ authReturn \in {"null", "array"} /\ ~HasCookies

\* C27 as stated: a run that has ended registered the replacer rule iff it is
\* authenticated and the login returned at least one cookie, whatever else
\* happened in the run; the rule is registered once, with the engine ready and
\* before the spider scan starts.
C27_Original ==
    /\ rulesAdded <= 1
    /\ rulesAdded = 1 => ready
    /\ pc = "addRule" => (ready /\ rulesAdded = 0 /\ spiderStatus = "")
    /\ MainEnded => (rulesAdded = 1 <=> HasCookies)

C27_Inv ==
    /\ rulesAdded <= 1
    /\ rulesAdded = 1 => (HasCookies /\ ready)
    /\ pc = "addRule" => (HasCookies /\ ready /\ rulesAdded = 0 /\ spiderStatus = "")
    /\ PastRule => (rulesAdded = 1 <=> HasCookies)
    /\ MainEnded => (rulesAdded = 1 <=> (HasCookies /\ ready))
    /\ NoCookieRun => (cookieHeader = <<>> /\ rulesAdded = 0 /\ pc # "addRule")

C27_Step ==
    (pc = "waitReady" /\ ~ready /\ ready' /\ (~authenticated \/ NoCookieRun))
        => pc' = "spiderStart"

\* C27 as amended: the replacer rule is registered, once, iff the run is
\* authenticated, the login returned at least one cookie and the engine became
\* ready (a run that falls back at the probe, the launch or the readiness wait
\* registers nothing); it is registered with the engine ready and before the
\* spider scan starts; an authenticated run without cookies keeps an empty
\* cookie header, registers nothing and goes from readiness to the spider scan
\* as a public run does.
C27_CookieRule == []C27_Inv /\ [][C27_Step]_vars

C27_Witness ==
    /\ Returned /\ Success /\ rulesAdded = 1 /\ HasCookies

\* C28: every run ends: whatever the engine reports, the run reaches its end
\* (status 0, or status 1 without TARGET_URL or after a write that threw).
\* Violated: the loops of lines 154-159 and 165-170 have no bound, so a spider
\* that never reports "100" keeps the run polling.
C28_Original == <>(pc \in {"done", "exit", "crashed"})

NoMixedSources ==
    Written =>
        \A i \in 1..Len(urlsJson.urls) :
            urlsJson.urls[i].source = IF HasError THEN "fallback" ELSE "zap"

\* C29: once the success document is written no later step replaces it, and
\* urls.json never holds fallback and engine entries together.
C29_SuccessIsFinal ==
    [][ /\ (Written /\ ~HasError) => urlsJson' = urlsJson
        /\ NoMixedSources' ]_vars

C29_Witness ==
    /\ Returned /\ Written /\ ~HasError
    /\ teardownCalls = 1
    /\ Len(urlsJson.urls) >= 2

---------------------------------------------------------------------------
(* scripts/build_flow.ts: string primitives *)

MaxPages == 3      \* longest pages list drawn from the page pool
DenseSize == 11    \* pages of the fully linked site (DenseSize^2 distinct edges)

\* line 161: slice(0, 120)
EdgeLimit == 120

\* line 94: slice(0, 6)
NavLimit == 6

GeneratedAt == "2026-02-21T00:00:00.000Z"

Min(a, b) == IF a <= b THEN a ELSE b
Max(S) == CHOOSE m \in S : \A k \in S : k <= m

\* Array.prototype.slice(0, n)
Take(list, n) == SubSeq(list, 1, Min(n, Len(list)))

\* the lower-case form of the upper-case letters
LowerTable ==
    [ A |-> "a", B |-> "b", C |-> "c", D |-> "d", E |-> "e", F |-> "f",
      G |-> "g", H |-> "h", I |-> "i", J |-> "j", K |-> "k", L |-> "l",
      M |-> "m", N |-> "n", O |-> "o", P |-> "p", Q |-> "q", R |-> "r",
      S |-> "s", T |-> "t", U |-> "u", V |-> "v", W |-> "w", X |-> "x",
      Y |-> "y", Z |-> "z" ]

LowerChar(c) == IF c \in DOMAIN LowerTable THEN LowerTable[c] ELSE c

\* String.prototype.toLowerCase (character by character, the string split in
\* halves to keep the evaluation shallow)
RECURSIVE toLowerCase(_)
toLowerCase(str) ==
    IF Len(str) = 0 THEN ""
    ELSE IF Len(str) = 1 THEN LowerChar(str)
    ELSE toLowerCase(SubSeq(str, 1, Len(str) \div 2))
             \o toLowerCase(SubSeq(str, Len(str) \div 2 + 1, Len(str)))

\* String.prototype.includes
includes(str, part) ==
    \E i \in 1..(Len(str) - Len(part) + 1) : SubSeq(str, i, i + Len(part) - 1) = part

\* String.prototype.trim, for the blank as white space
RECURSIVE trim(_)
trim(str) ==
    IF Len(str) = 0 THEN ""
    ELSE IF SubSeq(str, 1, 1) = " " THEN trim(SubSeq(str, 2, Len(str)))
    ELSE IF SubSeq(str, Len(str), Len(str)) = " " THEN trim(SubSeq(str, 1, Len(str) - 1))
    ELSE str

\* label.replace(/"/g, "'"), line 142
RECURSIVE replaceQuotes(_)
replaceQuotes(str) ==
    IF Len(str) = 0 THEN ""
    ELSE IF Len(str) = 1 THEN (IF str = "\"" THEN "'" ELSE str)
    ELSE replaceQuotes(SubSeq(str, 1, Len(str) \div 2))
             \o replaceQuotes(SubSeq(str, Len(str) \div 2 + 1, Len(str)))

\* Array.prototype.join
RECURSIVE join(_, _)
join(list, sep) ==
    IF Len(list) = 0 THEN ""
    ELSE IF Len(list) = 1 THEN list[1]
    ELSE join(SubSeq(list, 1, Len(list) \div 2), sep) \o sep
             \o join(SubSeq(list, Len(list) \div 2 + 1, Len(list)), sep)

\* lines 62-63
normalize(value) == toLowerCase(value)
hasKeyword(value, keywords) ==
    LET lowered == normalize(value)
    IN  \E keyword \in keywords : includes(lowered, keyword)

---------------------------------------------------------------------------
(* buildFlowArtifacts, lines 65-226 *)

\* an optional boolean field of a page read as a condition
Flag(page, field) == field \in DOMAIN page /\ page[field]

\* (page.title ?? "").toString()
TitleOrEmpty(page) == IF "title" \in DOMAIN page THEN page.title ELSE ""

\* page.links ?? [], page.navItems ?? []
LinksOf(page) == IF "links" \in DOMAIN page THEN page.links ELSE <<>>
NavItemsOf(page) == IF "navItems" \in DOMAIN page THEN page.navItems ELSE <<>>

UrlAndTitle(page) == page.url \o " " \o TitleOrEmpty(page)

\* faulty variant: the password field is not looked at
isLoginPageByUrlOnly(page) ==
    Flag(page, "loginDetected") \/ hasKeyword(page.url, {"login", "signin", "sign-in"})

\* the predicates of lines 76-87
isLoginPage(page) ==
    \/ Flag(page, "hasPasswordInput")
    \/ Flag(page, "loginDetected")
    \/ hasKeyword(page.url, {"login", "signin", "sign-in"})
isCheckoutPage(page) ==
    hasKeyword(UrlAndTitle(page), {"cart", "checkout", "payment", "order", "basket"})
isAccountPage(page) ==
    hasKeyword(UrlAndTitle(page), {"account", "profile", "settings", "dashboard"})
\* faulty variant: the search field is not looked at
isSearchPageByKeyword(page) == hasKeyword(UrlAndTitle(page), {"search"})

isSearchPage(page) ==
    Flag(page, "hasSearchInput") \/ hasKeyword(UrlAndTitle(page), {"search"})

loginPages(ps) == SelectSeq(ps, isLoginPage)
checkoutPages(ps) == SelectSeq(ps, isCheckoutPage)
accountPages(ps) == SelectSeq(ps, isAccountPage)
searchPages(ps) == SelectSeq(ps, isSearchPage)

\* lines 89-92: flatMap, map to text, drop the empty texts
RECURSIVE navSeeds(_)
navSeeds(ps) ==
    IF ps = <<>> THEN <<>>
    ELSE LET items == NavItemsOf(Head(ps))
             texts == [i \in 1..Len(items) |->
                          IF "text" \in DOMAIN items[i] THEN items[i].text ELSE ""]
             IsText(t) == t # ""
         IN  SelectSeq(texts, IsText) \o navSeeds(Tail(ps))

\* faulty variant: the seeds are cut before duplicates are removed
uniqueNavCutFirst(ps) == ArrayFromSet(Take(navSeeds(ps), NavLimit))

\* line 94
uniqueNav(ps) == Take(ArrayFromSet(navSeeds(ps)), NavLimit)

\* faulty variant: a missing count is printed as -1
UxCountNoDefault(counts, field) ==
    ToString(IF field \in DOMAIN counts THEN counts[field] ELSE 0 - 1)

\* `${uxCounts?.field ?? 0}`
UxCount(counts, field) == ToString(IF field \in DOMAIN counts THEN counts[field] ELSE 0)

\* faulty variant: the login count is the number of distinct login urls
LoginCountByUrl(ps) ==
    Cardinality({loginPages(ps)[i].url : i \in 1..Len(loginPages(ps))})

\* line 119: loginPages.length
LoginCount(ps) == Len(loginPages(ps))

\* lines 96-135
summaryLines(target, ps, counts, generatedAt) ==
    << "# Process Flow Summary",
       "",
       "Target: " \o (IF target # "" THEN target ELSE "Unknown"),
       "Generated: " \o generatedAt,
       "",
       "## Main Flows",
       "- Public navigation: Home -> " \o
           (IF Len(uniqueNav(ps)) > 0 THEN join(uniqueNav(ps), " -> ") ELSE "Primary pages") >>
    \o (IF Len(loginPages(ps)) > 0
        THEN << "- Login flow: Home -> Login -> Post-login landing" >> ELSE <<>>)
    \o (IF Len(checkoutPages(ps)) > 0
        THEN << "- Checkout flow: Browse -> Product -> Cart -> Checkout" >> ELSE <<>>)
    \o (IF Len(searchPages(ps)) > 0
        THEN << "- Search flow: Search -> Results -> Detail" >> ELSE <<>>)
    \o (IF Len(accountPages(ps)) > 0
        THEN << "- Account flow: Account -> Settings" >> ELSE <<>>)
    \o << "",
          "## Site Map",
          "- Pages discovered: " \o ToString(Len(ps)),
          "- Login-related pages: " \o ToString(LoginCount(ps)),
          "- Checkout-related pages: " \o ToString(Len(checkoutPages(ps))),
          "- Account-related pages: " \o ToString(Len(accountPages(ps))),
          "",
          "## UX Checks",
          "- Missing title pages: " \o UxCount(counts, "missingTitlePages"),
          "- Multiple H1 pages: " \o UxCount(counts, "multipleH1Pages"),
          "- Images missing alt: " \o UxCount(counts, "imagesMissingAlt"),
          "- Buttons missing label: " \o UxCount(counts, "buttonsMissingLabel"),
          "- Broken links (sample): " \o UxCount(counts, "brokenLinks"),
          "",
          "## Report Files",
          "- Flow diagram: flow.html",
          "- Mermaid source: flow.mmd",
          "- URLs: urls.json",
          "- Page context: pages.json",
          "- Screenshots: screenshots/" >>

\* faulty variant: ids are numbered from 0
nodeIdZeroBased(index) == "p" \o ToString(index - 1)

\* line 140, for the 1-based position of the page
nodeId(index) == "p" \o ToString(index)

\* line 138: (page.title && page.title.trim()) || page.url, then line 142
nodeLabel(page) ==
    replaceQuotes(IF trim(TitleOrEmpty(page)) # "" THEN trim(TitleOrEmpty(page))
                  ELSE page.url)

\* lines 137-144
nodes(ps) ==
    [i \in 1..Len(ps) |-> [id |-> nodeId(i), url |-> ps[i].url, label |-> nodeLabel(ps[i])]]

\* line 146: new Map(entries); a later entry of the same url replaces the earlier
urlToId(ns) ==
    [u \in {ns[i].url : i \in 1..Len(ns)} |->
        ns[Max({i \in 1..Len(ns) : ns[i].url = u})].id]

\* faulty variant: the `if (toId)` guard is missing
RECURSIVE linkEdgesUnguarded(_, _, _)
linkEdgesUnguarded(fromId, links, map) ==
    IF links = <<>> THEN <<>>
    ELSE << fromId \o " --> " \o
              (IF Head(links) \in DOMAIN map THEN map[Head(links)] ELSE "undefined") >>
         \o linkEdgesUnguarded(fromId, Tail(links), map)

\* lines 153-158: the edges pushed for the links of one page
RECURSIVE linkEdges(_, _, _)
linkEdges(fromId, links, map) ==
    IF links = <<>> THEN <<>>
    ELSE (IF Head(links) \in DOMAIN map
          THEN << fromId \o " --> " \o map[Head(links)] >> ELSE <<>>)
         \o linkEdges(fromId, Tail(links), map)

\* lines 148-159
RECURSIVE edges(_, _)
edges(ps, map) ==
    IF ps = <<>> THEN <<>>
    ELSE (IF Head(ps).url \in DOMAIN map
          THEN linkEdges(map[Head(ps).url], LinksOf(Head(ps)), map) ELSE <<>>)
         \o edges(Tail(ps), map)

\* faulty variant: duplicates are kept
limitedEdgesNoSet(es) == Take(es, EdgeLimit)

\* faulty variant: the list is cut before duplicates are removed
limitedEdgesCutFirst(es) == ArrayFromSet(Take(es, EdgeLimit))

\* line 161
limitedEdges(es) == Take(ArrayFromSet(es), EdgeLimit)

\* lines 163-165
loginSet(ps) == {loginPages(ps)[i].url : i \in 1..Len(loginPages(ps))}
checkoutSet(ps) == {checkoutPages(ps)[i].url : i \in 1..Len(checkoutPages(ps))}
accountSet(ps) == {accountPages(ps)[i].url : i \in 1..Len(accountPages(ps))}

\* lines 175, 184, 194, 204
nodeLine(node) == "    " \o node.id \o "[\"" \o node.label \o "\"]"

\* the node lines of the nodes whose url is in `urls`, in node order
RECURSIVE nodeLines(_, _)
nodeLines(ns, urls) ==
    IF ns = <<>> THEN <<>>
    ELSE (IF Head(ns).url \in urls THEN << nodeLine(Head(ns)) >> ELSE <<>>)
         \o nodeLines(Tail(ns), urls)

\* line 174: the urls rendered in the Public group
publicUrls(ps) ==
    {ps[i].url : i \in 1..Len(ps)} \ (loginSet(ps) \cup checkoutSet(ps) \cup accountSet(ps))

\* a group block of lines 180-208, present only when the category has pages
groupBlock(name, present, ns, urls) ==
    IF present THEN << "  subgraph " \o name >> \o nodeLines(ns, urls) \o << "  end" >>
    ELSE <<>>

edgeLines(es) == [i \in 1..Len(es) |-> "  " \o es[i]]

\* faulty variant: the edges are written before the groups
mermaidLinesEdgesFirst(ps, ns, es) ==
    << "flowchart LR" >>
    \o edgeLines(es)
    \o groupBlock("Public", TRUE, ns, publicUrls(ps))
    \o groupBlock("Auth", Len(loginPages(ps)) > 0, ns, loginSet(ps))
    \o groupBlock("Checkout", Len(checkoutPages(ps)) > 0, ns, checkoutSet(ps))
    \o groupBlock("Account", Len(accountPages(ps)) > 0, ns, accountSet(ps))

\* lines 167-212
mermaidLines(ps, ns, es) ==
    << "flowchart LR" >>
    \o groupBlock("Public", TRUE, ns, publicUrls(ps))
    \o groupBlock("Auth", Len(loginPages(ps)) > 0, ns, loginSet(ps))
    \o groupBlock("Checkout", Len(checkoutPages(ps)) > 0, ns, checkoutSet(ps))
    \o groupBlock("Account", Len(accountPages(ps)) > 0, ns, accountSet(ps))
    \o edgeLines(es)

\* lines 214-225
buildFlowArtifacts(target, ps, counts, generatedAt) ==
    LET ns == nodes(ps)
        es == limitedEdges(edges(ps, urlToId(ns)))
    IN  [ summary  |-> join(summaryLines(target, ps, counts, generatedAt), "\n"),
          mermaid  |-> join(mermaidLines(ps, ns, es), "\n"),
          flowMeta |-> [ targetUrl   |-> target,
                         generatedAt |-> generatedAt,
                         nodeCount   |-> Len(ns),
                         edgeCount   |-> Len(es) ],
          nodes    |-> ns,
          edges    |-> es ]

---------------------------------------------------------------------------
(* Inputs of the flow synthesis *)

PagePool ==
    { [ url |-> "x/", title |-> "Home",
        navItems |-> << [text |-> "Shop", href |-> "/shop"], [text |-> ""] >>,
        links |-> << "x/login", "x/p", "x/", "x/login", "x/nowhere" >> ],
      [ url |-> "x/login", title |-> "Login", hasPasswordInput |-> TRUE,
        links |-> << "x/" >> ],
      [ url |-> "x/p", hasPasswordInput |-> TRUE ],
      [ url |-> "x/p", title |-> " My \"Profile\" ", links |-> << "x/p", "x/" >>,
        navItems |-> << [text |-> "Shop"], [text |-> "Help"] >> ],
      [ url |-> "x/Sign-In?next=reorder", title |-> "", loginDetected |-> FALSE,
        hasSearchInput |-> TRUE, links |-> << "x/cart", "x/p" >> ] }

\* the target and the uxCounts argument of a call: uxCounts absent, partial, complete
FlowRuns ==
    { [ target |-> "https://x/", counts |-> [f \in {} |-> 0] ],
      [ target |-> "", counts |-> [brokenLinks |-> 2] ],
      [ target |-> "https://x/",
        counts |-> [missingTitlePages |-> 1, multipleH1Pages |-> 0, imagesMissingAlt |-> 3,
                    buttonsMissingLabel |-> 0, brokenLinks |-> 0] ] }

DenseUrl(i) == "x/n" \o ToString(i)

\* n pages with distinct urls, each linking to every page and once more to the
\* first, each with a navigation item of its own and the item of the first page
DensePages(n) ==
    [i \in 1..n |->
        [ url |-> DenseUrl(i),
          navItems |-> << [text |-> "Nav1"], [text |-> "Nav" \o ToString(i)] >>,
          links |-> [j \in 1..(n + 1) |-> DenseUrl(IF j <= n THEN j ELSE 1)] ]]

InitFlow ==
    /\ authenticated = FALSE
    /\ env = RequiredFields
    /\ \E run \in FlowRuns : targetUrl = run.target /\ uxCounts = run.counts
    /\ pc = "start"
    /\ browserLaunches = 0
    /\ browserCloses = 0
    /\ authReturn = "uncalled"
    /\ cookiesFile = <<>>
    /\ cookieHeader = <<>>
    /\ containerStarted = FALSE
    /\ instanceExists = FALSE
    /\ teardownCalls = 0
    /\ attempt = 0
    /\ ready = FALSE
    /\ rulesAdded = 0
    /\ spiderStatus = ""
    /\ ajaxStatus = ""
    /\ coreUrls = <<>>
    /\ spiderUrls = <<>>
    /\ urlsJson = NoFile
    /\ metaJson = NoFile
    /\ failedPhase = "none"
    /\ escaped = FALSE
    /\ pages \in SeqsUpTo(PagePool, MaxPages) \cup {DensePages(DenseSize)}
    /\ flowPc = "idle"
    /\ flowArtifacts = <<>>
    /\ OthersAtRest

discoveryVars == << inputVars, authVars, engineVars, pc, urlsJson, metaJson, failedPhase,
                   escaped >>

\* main of build_flow.ts, lines 228-248: the call of buildFlowArtifacts
BuildFlow ==
    /\ flowPc = "idle"
    /\ flowArtifacts' = buildFlowArtifacts(targetUrl, pages, uxCounts, GeneratedAt)
    /\ flowPc' = "built"
    /\ UNCHANGED << discoveryVars, otherVars, pages, uxCounts >>

NextFlow == BuildFlow

SpecFlow == InitFlow /\ [][NextFlow]_vars

---------------------------------------------------------------------------
(* Properties of buildFlowArtifacts *)

Built == flowPc = "built"

MinOf(S) == CHOOSE m \in S : \A k \in S : m <= k

\* the lines of a text whose lines are joined with "\n"
RECURSIVE SplitLines(_)
SplitLines(str) ==
    IF Len(str) = 0 THEN << "" >>
    ELSE IF Len(str) = 1 THEN (IF str = "\n" THEN << "", "" >> ELSE << str >>)
    ELSE LET half == Len(str) \div 2
             l == SplitLines(SubSeq(str, 1, half))
             r == SplitLines(SubSeq(str, half + 1, Len(str)))
         IN  SubSeq(l, 1, Len(l) - 1) \o << l[Len(l)] \o r[1] >> \o SubSeq(r, 2, Len(r))

DiagramLines == SplitLines(flowArtifacts.mermaid)
SummaryText == SplitLines(flowArtifacts.summary)

NodeIds == {flowArtifacts.nodes[i].id : i \in 1..Len(flowArtifacts.nodes)}

GroupNames == << "Public", "Auth", "Checkout", "Account" >>

\* the positions of the opening line of a group block
HeaderAt(L, g) == {i \in 1..Len(L) : L[i] = "  subgraph " \o g}

\* the lines between the opening line of a group block and its closing line
GroupMembers(L, g) ==
    IF HeaderAt(L, g) = {} THEN <<>>
    ELSE LET h == MinOf(HeaderAt(L, g))
             closing == {e \in (h + 1)..Len(L) : L[e] = "  end"}
         IN  SubSeq(L, h + 1, IF closing = {} THEN Len(L) ELSE MinOf(closing) - 1)

\* how many times a node is rendered in a group
Rendered(L, g, node) ==
    LET G == GroupMembers(L, g)
    IN  Cardinality({k \in 1..Len(G) : G[k] = nodeLine(node)})

\* the position after which no group block line follows
LastBlockEnd(L) ==
    LET closing == {i \in 1..Len(L) : L[i] = "  end"}
    IN  IF closing = {} THEN Len(L) ELSE Max(closing)

\* the category signals, read on a page alone
ContainsAny(text, words) ==
    LET lowered == toLowerCase(text)
    IN  \E w \in words : includes(lowered, w)
TagLogin(page) ==
    \/ ("hasPasswordInput" \in DOMAIN page /\ page.hasPasswordInput)
    \/ ("loginDetected" \in DOMAIN page /\ page.loginDetected)
    \/ ContainsAny(page.url, {"login", "signin", "sign-in"})
TagCheckout(page) ==
    ContainsAny(page.url \o " " \o TitleOrEmpty(page),
                {"cart", "checkout", "payment", "order", "basket"})
TagAccount(page) ==
    ContainsAny(page.url \o " " \o TitleOrEmpty(page),
                {"account", "profile", "settings", "dashboard"})
Tagged(g, page) ==
    CASE g = "Auth" -> TagLogin(page)
      [] g = "Checkout" -> TagCheckout(page)
      [] g = "Account" -> TagAccount(page)
      [] OTHER -> ~TagLogin(page) /\ ~TagCheckout(page) /\ ~TagAccount(page)

CountOf(ps, Test(_)) == Cardinality({i \in 1..Len(ps) : Test(ps[i])})

\* C12: one node per page in input order: nodes and nodeCount have the length of
\* pages, the i-th node has id p<i> and the url of the i-th page, and no two nodes
\* share an id, repeated urls included.
C12_OneNodePerPage ==
    Built =>
        /\ Len(flowArtifacts.nodes) = Len(pages)
        /\ flowArtifacts.flowMeta.nodeCount = Len(pages)
        /\ \A i \in 1..Len(pages) :
              /\ flowArtifacts.nodes[i].id = "p" \o ToString(i)
              /\ flowArtifacts.nodes[i].url = pages[i].url
        /\ \A i, j \in 1..Len(pages) :
              i # j => flowArtifacts.nodes[i].id # flowArtifacts.nodes[j].id

C12_Witness ==
    /\ Built
    /\ \E i, j \in 1..Len(pages) : i < j /\ pages[i].url = pages[j].url
    /\ flowArtifacts.flowMeta.nodeCount >= 2
    /\ flowArtifacts.nodes[2].id = "p2"

\* C13: every edge, in the edge list and in the diagram, joins two ids of nodes
\* of the same call and comes from a link equal to the url of the node it points
\* to; a link equal to no page url gives no edge.
C13_EdgesJoinNodes ==
    Built =>
        LET L == DiagramLines
            ns == flowArtifacts.nodes
        IN  /\ \A k \in 1..Len(flowArtifacts.edges) :
                  \E a, b \in 1..Len(ns) :
                     /\ flowArtifacts.edges[k] = ns[a].id \o " --> " \o ns[b].id
                     /\ \E i \in 1..Len(pages) :
                           /\ pages[i].url = ns[a].url
                           /\ \E n \in 1..Len(LinksOf(pages[i])) :
                                 LinksOf(pages[i])[n] = ns[b].url
            /\ \A i \in (LastBlockEnd(L) + 1)..Len(L) :
                  \E a, b \in NodeIds : L[i] = "  " \o a \o " --> " \o b
            /\ \A i \in 1..Len(L) :
                  includes(L[i], " --> ") =>
                     \E a, b \in NodeIds : L[i] = "  " \o a \o " --> " \o b

C13_Witness ==
    /\ Built
    /\ Len(flowArtifacts.edges) >= 1
    /\ \E i \in 1..Len(pages) : \E n \in 1..Len(LinksOf(pages[i])) :
          \A j \in 1..Len(pages) : pages[j].url # LinksOf(pages[i])[n]

\* C14: the edge list has no duplicates, however often a link is repeated.
C14_NoDuplicateEdges ==
    Built =>
        \A k, l \in 1..Len(flowArtifacts.edges) :
            k # l => flowArtifacts.edges[k] # flowArtifacts.edges[l]

C14_Witness ==
    /\ Built
    /\ Len(flowArtifacts.edges) >= 1
    /\ \E i \in 1..Len(pages) : \E m, n \in 1..Len(LinksOf(pages[i])) :
          /\ m < n
          /\ LinksOf(pages[i])[m] = LinksOf(pages[i])[n]
          /\ \E j \in 1..Len(pages) : pages[j].url = LinksOf(pages[i])[m]

\* the edges in discovery order, before duplicates are removed
DiscoveredEdges == edges(pages, urlToId(nodes(pages)))

\* C15: the edge list and edgeCount have min(120, distinct edges) entries, and
\* the k-th retained edge is the k-th distinct edge in discovery order.
C15_FirstDistinctEdges ==
    Built =>
        LET E == DiscoveredEdges
            R == flowArtifacts.edges
            first == {i \in 1..Len(E) : \A j \in 1..(i - 1) : E[j] # E[i]}
        IN  /\ Len(R) = Min(120, Cardinality(first))
            /\ flowArtifacts.flowMeta.edgeCount = Min(120, Cardinality(first))
            /\ \A k \in 1..Len(R) :
                  \E i \in first :
                     /\ E[i] = R[k]
                     /\ Cardinality({j \in first : j <= i}) = k

C15_Witness ==
    /\ Built
    /\ Cardinality(Range(DiscoveredEdges)) > 120
    /\ Len(flowArtifacts.edges) = 120
    /\ flowArtifacts.flowMeta.edgeCount = 120

\* C16: a page with hasPasswordInput = true is Login-tagged whatever its url and
\* title: it is counted in the Login-related count, its node is in the Auth group
\* and not in the Public group.
C16_PasswordPageIsLogin ==
    Built =>
        LET L == DiagramLines
            HasPassword(page) == "hasPasswordInput" \in DOMAIN page /\ page.hasPasswordInput
            OtherLogin(page) == ~HasPassword(page) /\ TagLogin(page)
        IN  /\ \A i \in 1..Len(pages) :
                  HasPassword(pages[i]) =>
                     /\ Rendered(L, "Auth", flowArtifacts.nodes[i]) >= 1
                     /\ Rendered(L, "Public", flowArtifacts.nodes[i]) = 0
            /\ includes(flowArtifacts.summary,
                        "\n- Login-related pages: "
                           \o ToString(CountOf(pages, HasPassword) + CountOf(pages, OtherLogin))
                           \o "\n")

C16_Witness ==
    /\ Built
    /\ \E i \in 1..Len(pages) :
          /\ "hasPasswordInput" \in DOMAIN pages[i] /\ pages[i].hasPasswordInput
          /\ ~ContainsAny(pages[i].url \o " " \o TitleOrEmpty(pages[i]),
                          {"login", "signin", "sign-in"})
          /\ Rendered(DiagramLines, "Auth", flowArtifacts.nodes[i]) = 1

\* a page, an uxCounts argument with every optional field written out
PageDefault(field) ==
    CASE field = "title" -> ""
      [] field \in {"navItems", "links"} -> <<>>
      [] OTHER -> FALSE
FilledItem(item) ==
    [f \in DOMAIN item \cup {"text"} |-> IF f \in DOMAIN item THEN item[f] ELSE ""]
FilledPage(page) ==
    [f \in {"url", "title", "navItems", "links", "hasPasswordInput", "loginDetected",
            "hasSearchInput"} |->
        IF f \notin DOMAIN page THEN PageDefault(f)
        ELSE IF f = "navItems"
             THEN [k \in 1..Len(page.navItems) |-> FilledItem(page.navItems[k])]
             ELSE page[f]]
FilledCounts(counts) ==
    [f \in {"missingTitlePages", "multipleH1Pages", "imagesMissingAlt",
            "buttonsMissingLabel", "brokenLinks"} |->
        IF f \in DOMAIN counts THEN counts[f] ELSE 0]

\* C17: the synthesis always returns: for no pages it returns no nodes, no edges,
\* nodeCount 0, edgeCount 0 and a summary with "Pages discovered: 0"; a missing
\* optional field of a page or of uxCounts gives the result of the same input with
\* the field written as "", empty, false or 0.
C17_Total ==
    Built =>
        /\ pages = <<>> =>
              /\ flowArtifacts.flowMeta.nodeCount = 0
              /\ flowArtifacts.flowMeta.edgeCount = 0
              /\ flowArtifacts.nodes = <<>>
              /\ flowArtifacts.edges = <<>>
              /\ includes(flowArtifacts.summary, "Pages discovered: 0")
        /\ flowArtifacts =
              buildFlowArtifacts(targetUrl, [i \in 1..Len(pages) |-> FilledPage(pages[i])],
                                 FilledCounts(uxCounts), GeneratedAt)

C17_Witness ==
    /\ Built
    /\ pages = <<>>
    /\ DOMAIN uxCounts = {}
    /\ "- Pages discovered: 0" \in Range(SummaryText)
    /\ "- Broken links (sample): 0" \in Range(SummaryText)

\* C18: a node is in the Public group iff its page carries none of the tags
\* Login, Checkout, Account, and otherwise exactly once in each group of a tag its
\* page carries and in no other.  Violated: the groups are filled by url (lines
\* 163-165), so a node also enters the groups of another page with the same url.
C18_Original ==
    Built =>
        LET L == DiagramLines
        IN  \A i \in 1..Len(pages) : \A n \in 1..4 :
                Rendered(L, GroupNames[n], flowArtifacts.nodes[i])
                    = IF Tagged(GroupNames[n], pages[i]) THEN 1 ELSE 0

\* C19: the group blocks come in the order Public, Auth, Checkout, Account, the
\* nodes of a block in input order, and the edge lines once each, in the order of
\* the edge list, after the last block and nowhere else.
C19_DiagramOrder ==
    Built =>
        LET L == DiagramLines
            ns == flowArtifacts.nodes
            es == flowArtifacts.edges
            IndexOf(line) == CHOOSE n \in 1..Len(ns) : nodeLine(ns[n]) = line
        IN  /\ L[1] = "flowchart LR"
            /\ HeaderAt(L, "Public") = {2}
            /\ \A a \in 1..4 : Cardinality(HeaderAt(L, GroupNames[a])) <= 1
            /\ \A a, b \in 1..4 :
                  a < b =>
                     \A i \in HeaderAt(L, GroupNames[a]), j \in HeaderAt(L, GroupNames[b]) :
                        i + Len(GroupMembers(L, GroupNames[a])) + 1 < j
            /\ \A a \in 1..4 :
                  LET G == GroupMembers(L, GroupNames[a])
                  IN  /\ \A k \in 1..Len(G) : \E n \in 1..Len(ns) : nodeLine(ns[n]) = G[k]
                      /\ \A k, l \in 1..Len(G) : k < l => IndexOf(G[k]) < IndexOf(G[l])
            /\ Len(L) = LastBlockEnd(L) + Len(es)
            /\ \A k \in 1..Len(es) : L[LastBlockEnd(L) + k] = "  " \o es[k]
            /\ \A i \in 1..LastBlockEnd(L) : \A k \in 1..Len(es) : L[i] # "  " \o es[k]

C19_Witness ==
    /\ Built
    /\ Len(pages) <= MaxPages
    /\ Len(flowArtifacts.edges) >= 1
    /\ LET L == DiagramLines
       IN  /\ \A a \in 1..4 : HeaderAt(L, GroupNames[a]) # {}
           /\ \E a \in 1..4 : Len(GroupMembers(L, GroupNames[a])) >= 2

\* C20: the Site Map lines give the number of pages and, for Login, Checkout and
\* Account, the number of pages showing that category's signal, a page with
\* several signals counted in each.
C20_SiteMapCounts ==
    Built =>
        LET S == Range(SummaryText)
        IN  /\ "- Pages discovered: " \o ToString(Len(pages)) \in S
            /\ "- Login-related pages: " \o ToString(CountOf(pages, TagLogin)) \in S
            /\ "- Checkout-related pages: " \o ToString(CountOf(pages, TagCheckout)) \in S
            /\ "- Account-related pages: " \o ToString(CountOf(pages, TagAccount)) \in S

C20_Witness ==
    /\ Built
    /\ Len(pages) >= 1
    /\ CountOf(pages, TagLogin) + CountOf(pages, TagCheckout) + CountOf(pages, TagAccount)
          > Len(pages)
    /\ includes(flowArtifacts.summary,
                "- Login-related pages: " \o ToString(CountOf(pages, TagLogin)) \o "\n")

TagSearch(page) ==
    \/ ("hasSearchInput" \in DOMAIN page /\ page.hasSearchInput)
    \/ ContainsAny(page.url \o " " \o TitleOrEmpty(page), {"search"})

\* the lines of the summary between two of its headings
SummarySection(S, from, to) ==
    LET a == {i \in 1..Len(S) : S[i] = from}
        b == {i \in 1..Len(S) : S[i] = to}
    IN  IF a = {} \/ b = {} THEN <<>> ELSE SubSeq(S, MinOf(a) + 1, MinOf(b) - 1)

StartsWith(str, prefix) == Len(str) >= Len(prefix) /\ SubSeq(str, 1, Len(prefix)) = prefix

\* C21: Main Flows always has the Public navigation line and has the Login,
\* Checkout, Search, Account flow line iff some page carries that tag; the
\* diagram has an Auth, Checkout, Account block iff some page carries that tag.
C21_FlowLinesAndBlocks ==
    Built =>
        LET M == SummarySection(SummaryText, "## Main Flows", "## Site Map")
            L == DiagramLines
            Some(Test(_)) == \E i \in 1..Len(pages) : Test(pages[i])
        IN  /\ Len(M) >= 1
            /\ StartsWith(M[1], "- Public navigation: Home -> ")
            /\ ("- Login flow: Home -> Login -> Post-login landing" \in Range(M))
                  <=> Some(TagLogin)
            /\ ("- Checkout flow: Browse -> Product -> Cart -> Checkout" \in Range(M))
                  <=> Some(TagCheckout)
            /\ ("- Search flow: Search -> Results -> Detail" \in Range(M))
                  <=> Some(TagSearch)
            /\ ("- Account flow: Account -> Settings" \in Range(M)) <=> Some(TagAccount)
            /\ (HeaderAt(L, "Auth") # {}) <=> Some(TagLogin)
            /\ (HeaderAt(L, "Checkout") # {}) <=> Some(TagCheckout)
            /\ (HeaderAt(L, "Account") # {}) <=> Some(TagAccount)

C21_Witness ==
    /\ Built
    /\ \E i \in 1..Len(pages) : TagSearch(pages[i]) /\ TagCheckout(pages[i])
    /\ \A i \in 1..Len(pages) : ~TagAccount(pages[i])
    /\ includes(flowArtifacts.summary, "\n- Search flow: Search -> Results -> Detail\n")
    /\ ~includes(flowArtifacts.summary, "\n- Account flow")
    /\ includes(flowArtifacts.mermaid, "\n  subgraph Checkout\n")

\* C30: a page that links to its own url gives no edge from a node to itself.
\* Violated: line 154 looks the link up among all nodes, its own page included.
C30_Original ==
    Built =>
        \A k \in 1..Len(flowArtifacts.edges) :
            \A a \in NodeIds : flowArtifacts.edges[k] # a \o " --> " \o a

\* C31: the from id of every edge is the id of the node of the page whose links
\* gave the edge, pages with a shared url included.  Violated: the from id is
\* looked up by url (line 150), which gives the last node with that url.
C31_Original ==
    Built =>
        \A k \in 1..Len(flowArtifacts.edges) :
            \E a, b \in 1..Len(pages) :
               /\ flowArtifacts.edges[k]
                     = flowArtifacts.nodes[a].id \o " --> " \o flowArtifacts.nodes[b].id
               /\ pages[b].url \in Range(LinksOf(pages[a]))

\* C32: the Public navigation line lists the non-empty navItems texts of all
\* pages in encounter order, each once at its first occurrence, the first 6 of
\* them; without any it reads "Primary pages".
C32_NavigationSeeds ==
    Built =>
        LET T == navSeeds(pages)
            first == {i \in 1..Len(T) : \A j \in 1..(i - 1) : T[j] # T[i]}
            kept == [k \in 1..Min(6, Cardinality(first)) |->
                        T[CHOOSE i \in first : Cardinality({j \in first : j <= i}) = k]]
            M == SummarySection(SummaryText, "## Main Flows", "## Site Map")
        IN  /\ \A i \in 1..Len(T) : T[i] # ""
            /\ \A i \in 1..Len(pages) : \A n \in 1..Len(NavItemsOf(pages[i])) :
                  LET item == NavItemsOf(pages[i])[n]
                  IN  ("text" \in DOMAIN item /\ item.text # "") => item.text \in Range(T)
            /\ Len(M) >= 1
            /\ M[1] = "- Public navigation: Home -> "
                         \o (IF Len(kept) = 0 THEN "Primary pages" ELSE join(kept, " -> "))

C32_Witness ==
    /\ Built
    /\ Cardinality(Range(navSeeds(pages))) > 6
    /\ includes(flowArtifacts.summary,
                "\n- Public navigation: Home -> Nav1 -> Nav2 -> Nav3 -> Nav4 -> Nav5 -> Nav6\n")

---------------------------------------------------------------------------
(* The page-context collector: run_playwright.ts, lines 236-452 of
   src/scripts/run_discovery.ts.  SpecCollector runs the script once on a
   urls.json, a TARGET_URL and a MAX_PAGES drawn from small sets. *)

MaxVisit == 2      \* largest MAX_PAGES drawn

CollectorUrlChoices == {"https://x/a", "https://x:443/a", "https://y/a"}

\* what page.evaluate returns, lines 298-375 (the fields the script reads)
DataChoices ==
    { [ title |-> "Home", links |-> <<>>, hasPasswordInput |-> FALSE,
        missingTitle |-> FALSE, h1Count |-> 1, imagesMissingAlt |-> 0,
        buttonsMissingLabel |-> 0 ],
      [ title |-> "", links |-> << "/b" >>, hasPasswordInput |-> TRUE,
        missingTitle |-> TRUE, h1Count |-> 2, imagesMissingAlt |-> 1,
        buttonsMissingLabel |-> 1 ] }

\* lib.ts toAbsoluteUrl: new URL(url, base).toString(), the url itself on a throw
toAbsoluteUrl(url, base) ==
    IF url = "/b" /\ URLOrigin(base) # "THROWS" THEN URLOrigin(base) \o "/b" ELSE url

\* lib.ts slugify, lines 17-24: the lower-case input without its "http://" and
\* "https://" (two occurrences never overlap), each run of characters other
\* than [a-z0-9] turned into one "-", the "-" at both ends removed, cut to 80
\* characters; "page" for an empty slug
slugify(input) ==
    LET AlphaNumeric ==
            { "a", "b", "c", "d", "e", "f", "g", "h", "i", "j", "k", "l", "m",
              "n", "o", "p", "q", "r", "s", "t", "u", "v", "w", "x", "y", "z",
              "0", "1", "2", "3", "4", "5", "6", "7", "8", "9" }
        CharAt(str, i) == SubSeq(str, i, i)
        \* replace(/https?:\/\//g, "")
        stripSchemes(str) ==
            LET at(i, w) == /\ i + Len(w) - 1 <= Len(str)
                            /\ SubSeq(str, i, i + Len(w) - 1) = w
                width(i) == IF at(i, "https://") THEN 8
                            ELSE IF at(i, "http://") THEN 7 ELSE 0
                removed(i) == \E s \in 1..i : i < s + width(s)
            IN  join([i \in 1..Len(str) |->
                         IF removed(i) THEN "" ELSE CharAt(str, i)], "")
        \* replace(/[^a-z0-9]+/g, "-")
        dashRuns(str) ==
            LET other(i) == CharAt(str, i) \notin AlphaNumeric
            IN  join([i \in 1..Len(str) |->
                         IF ~other(i) THEN CharAt(str, i)
                         ELSE IF i > 1 /\ other(i - 1) THEN "" ELSE "-"], "")
        \* replace(/^-+|-+$/g, "")
        trimDashes(str) ==
            LET kept == { i \in 1..Len(str) : CharAt(str, i) # "-" }
            IN  IF kept = {} THEN ""
                ELSE SubSeq(str, CHOOSE i \in kept : \A k \in kept : i <= k, Max(kept))
        slug == Take(trimDashes(dashRuns(stripSchemes(toLowerCase(input)))), 80)
    IN  IF slug = "" THEN "page" ELSE slug

\* lib.ts safeUrlFilename, lines 63-65: slugify of url.replace(/[?#].*$/, ""),
\* the url cut at its first "?" or "#" that no line break follows
safeUrlFilename(url) ==
    LET breaks == { i \in 1..Len(url) : SubSeq(url, i, i) \in {"\n", "\r"} }
        marks == { i \in 1..Len(url) : /\ SubSeq(url, i, i) \in {"?", "#"}
                                       /\ \A b \in breaks : b < i }
    IN  slugify(IF marks = {} THEN url
                ELSE SubSeq(url, 1, (CHOOSE i \in marks : \A k \in marks : i <= k) - 1))

\* line 256: the same-origin urls, first occurrences, cut to maxPages
collectorUrls(list, target, max) ==
    Take(ArrayFromSet(filterSameOrigin(list, target)), max)

\* line 378: data.hasPasswordInput || /login|signin|sign-in/i.test(finalUrl)
loginDetected(data, finalUrl) ==
    \/ data.hasPasswordInput
    \/ \E w \in {"login", "signin", "sign-in"} : includes(toLowerCase(finalUrl), w)

\* lines 290-293: the record a visit starts with ("null" stands for null)
pageInfoStart(url) == [ url |-> url, error |-> "null" ]

\* lines 384-391: the record of a visit whose try block ran to its end
pageInfoDone(url, data, finalUrl) ==
    [ url |-> url, error |-> "null", title |-> data.title,
      hasPasswordInput |-> data.hasPasswordInput,
      missingTitle |-> data.missingTitle, h1Count |-> data.h1Count,
      imagesMissingAlt |-> data.imagesMissingAlt,
      buttonsMissingLabel |-> data.buttonsMissingLabel,
      finalUrl |-> finalUrl,
      loginDetected |-> loginDetected(data, finalUrl),
      links |-> [i \in 1..Len(data.links) |-> toAbsoluteUrl(data.links[i], url)],
      screenshot |-> "screenshots/" \o safeUrlFilename(url) \o ".png" ]

\* lines 401-403: the record of a visit whose try block threw
pageInfoFailed(url, message) == [pageInfoStart(url) EXCEPT !.error = message]

\* faulty variant: the record is pushed at the end of the try block
pushInTry(list, pageInfo, threw) == IF threw THEN list ELSE Append(list, pageInfo)

\* lines 404-406: the finally block pushes the record, whatever happened
pushInFinally(list, pageInfo, threw) == Append(list, pageInfo)

RECURSIVE Sum(_)
Sum(numbers) == IF numbers = <<>> THEN 0 ELSE Head(numbers) + Sum(Tail(numbers))

Succeeded(list) == SelectSeq(list, LAMBDA r : r.error = "null")

\* lines 393-400 and 440-452: the counters, added up at the end of each try block
uxCountsOf(list, broken) ==
    LET ok == Succeeded(list)
        n == Len(ok)
    IN  [ missingTitlePages |-> Sum([i \in 1..n |-> IF ok[i].missingTitle THEN 1 ELSE 0]),
          multipleH1Pages |-> Sum([i \in 1..n |-> IF ok[i].h1Count > 1 THEN 1 ELSE 0]),
          imagesMissingAlt |-> Sum([i \in 1..n |-> ok[i].imagesMissingAlt]),
          buttonsMissingLabel |-> Sum([i \in 1..n |-> ok[i].buttonsMissingLabel]),
          brokenLinks |-> broken ]

\* line 415: slice(0, 30)
SampleLimit == 30

\* lines 411-415: page.links ?? [] of every record, flattened; of these the
\* links that start with "http", first occurrences, the first 30 of them
sampleSet(list) ==
    LET startsWith(str, prefix) ==
            Len(str) >= Len(prefix) /\ SubSeq(str, 1, Len(prefix)) = prefix
        linksOf(r) == IF "links" \in DOMAIN r THEN r.links ELSE <<>>
        before(i) == Sum([k \in 1..(i - 1) |-> Len(linksOf(list[k]))])
        total == before(Len(list) + 1)
        owner(n) == CHOOSE i \in 1..Len(list) :
                        before(i) < n /\ n <= before(i) + Len(linksOf(list[i]))
        linkSample == [n \in 1..total |-> linksOf(list[owner(n)])[n - before(owner(n))]]
    IN  Take(ArrayFromSet(SelectSeq(linkSample, LAMBDA l : startsWith(l, "http"))),
             SampleLimit)

\* the discovery run and the flow builder, not started
DiscoveryAtRest ==
    /\ authenticated = FALSE
    /\ env = RequiredFields
    /\ pc = "start"
    /\ browserLaunches = 0
    /\ browserCloses = 0
    /\ authReturn = "uncalled"
    /\ cookiesFile = <<>>
    /\ cookieHeader = <<>>
    /\ containerStarted = FALSE
    /\ instanceExists = FALSE
    /\ teardownCalls = 0
    /\ attempt = 0
    /\ ready = FALSE
    /\ rulesAdded = 0
    /\ spiderStatus = ""
    /\ ajaxStatus = ""
    /\ coreUrls = <<>>
    /\ spiderUrls = <<>>
    /\ urlsJson = NoFile
    /\ metaJson = NoFile
    /\ failedPhase = "none"
    /\ escaped = FALSE

FlowAtRest ==
    /\ pages = <<>>
    /\ uxCounts = <<>>
    /\ flowPc = "idle"
    /\ flowArtifacts = <<>>

InitCollector ==
    /\ DiscoveryAtRest
    /\ FlowAtRest
    /\ targetUrl \in TargetChoices \cup {""}
    /\ colPc = "start"
    /\ urlsData \in SeqsUpTo(CollectorUrlChoices, MaxUrls)
    /\ maxPages \in 1..MaxVisit
    /\ visitUrls = <<>>
    /\ colIdx = 0
    /\ attempted = <<>>
    /\ collected = <<>>
    /\ pagesJson = NoFile
    /\ uxJson = NoFile
    /\ PublishAtRest
    /\ DashboardAtRest

collectorRest == << discoveryVars, flowVars, publishVars, dashVars >>

\* lines 240-269: TARGET_URL is required; the url list; the browser is launched
ReadUrls ==
    /\ colPc = "start"
    /\ IF targetUrl = ""
         THEN colPc' = "exit" /\ UNCHANGED visitUrls
         ELSE LET list == IF urlsData = <<>> THEN << targetUrl >> ELSE urlsData
              IN  IF filterSameOriginThrows(targetUrl)
                    THEN colPc' = "crashed" /\ UNCHANGED visitUrls
                    ELSE /\ visitUrls' = collectorUrls(list, targetUrl, maxPages)
                         /\ \E launched \in BOOLEAN :
                                colPc' = IF launched THEN "loop" ELSE "crashed"
    /\ UNCHANGED << collectorRest, urlsData, maxPages, colIdx, attempted, collected,
                    pagesJson, uxJson >>

\* lines 288-407: one iteration of the loop.  context.newPage is called outside
\* the try block and page.close inside the finally block: a throw of either
\* ends the script.
VisitPage ==
    /\ colPc = "loop"
    /\ colIdx < Len(visitUrls)
    /\ LET url == visitUrls[colIdx + 1] IN
         /\ colIdx' = colIdx + 1
         /\ \/ \* context.newPage throws
               /\ colPc' = "crashed"
               /\ UNCHANGED << attempted, collected >>
            \/ \E threw \in BOOLEAN, data \in DataChoices, closed \in BOOLEAN :
                 LET pageInfo == IF threw
                                   THEN pageInfoFailed(url, "page.goto: Timeout 30000ms exceeded")
                                   ELSE pageInfoDone(url, data, url)
                 IN  /\ attempted' = Append(attempted, [url |-> url, threw |-> threw])
                     /\ collected' = pushInFinally(collected, pageInfo, threw)
                     /\ colPc' = IF closed THEN "loop" ELSE "crashed"
    /\ UNCHANGED << collectorRest, urlsData, maxPages, visitUrls, pagesJson, uxJson >>

\* lines 409-452: the browser is closed, the links are sampled, the two files
\* are written
WritePages ==
    /\ colPc = "loop"
    /\ colIdx = Len(visitUrls)
    /\ \/ \* browser.close throws
          /\ colPc' = "crashed"
          /\ UNCHANGED << pagesJson, uxJson >>
       \/ \E broken \in 0..Len(sampleSet(collected)) :
            /\ pagesJson' = [ exists |-> TRUE, targetUrl |-> targetUrl,
                              count |-> Len(collected), pages |-> collected ]
            /\ uxJson' = [ exists |-> TRUE, targetUrl |-> targetUrl,
                           counts |-> uxCountsOf(collected, broken) ]
            /\ colPc' = "done"
    /\ UNCHANGED << collectorRest, urlsData, maxPages, visitUrls, colIdx, attempted,
                    collected >>

NextCollector == ReadUrls \/ VisitPage \/ WritePages

SpecCollector == InitCollector /\ [][NextCollector]_vars

\* C33: the collector visits at most maxPages urls, pairwise distinct and all
\* of the target's origin; the records are one per attempted url, in visit
\* order, with error set exactly when the visit failed; the count written to
\* pages.json is the number of attempted urls.
C33_OneRecordPerVisit ==
    /\ Len(attempted) <= maxPages
    /\ \A i, j \in 1..Len(attempted) : attempted[i].url = attempted[j].url => i = j
    /\ \A i \in 1..Len(attempted) :
         /\ URLOrigin(attempted[i].url) = URLOrigin(targetUrl)
         /\ attempted[i].url \in Range(urlsData) \cup {targetUrl}
    /\ Len(collected) = Len(attempted)
    /\ \A i \in 1..Len(attempted) :
         /\ collected[i].url = attempted[i].url
         /\ (collected[i].error # "null") <=> attempted[i].threw
    /\ pagesJson.exists =>
         /\ pagesJson.count = Len(attempted)
         /\ Len(pagesJson.pages) = pagesJson.count
         /\ \A i \in 1..Len(attempted) : pagesJson.pages[i].url = attempted[i].url

\* two urls were visited out of three listed, one visit failed, pages.json written
C33_Witness ==
    /\ pagesJson.exists
    /\ pagesJson.count = 2
    /\ Len(urlsData) = 3
    /\ \E i \in 1..2 : pagesJson.pages[i].error # "null"
    /\ \E i \in 1..2 : pagesJson.pages[i].error = "null"

---------------------------------------------------------------------------
(* Publishing: src/scripts/publish_reports.ts.  A directory is the set of the
   paths of its files, a path being the sequence of its names; SpecPublish
   runs the script MaxPublishes times, starting from an empty docs/reports or
   from the one that HistoryLimit - 1 or HistoryLimit earlier runs left. *)

MaxPublishes == 2  \* runs of the script in one behaviour

\* line 72: the slice length
HistoryLimit == 50

\* line 30
ignoreFiles == {"auth_cookies.json"}

\* lib.ts timestamp(): the name of the i-th report directory
Stamp(i) == "run-" \o ToString(i)

PlainTree ==
    { << "summary.md" >>, << "flow.html" >>, << "meta.json" >>,
      << "screenshots", "x-a.png" >> }

\* report directories: without the cookies file; with it next to meta.json;
\* with it at two depths and without meta.json
ReportTrees ==
    { PlainTree,
      PlainTree \cup { << "auth_cookies.json" >> },
      { << "summary.md" >>, << "auth_cookies.json" >>,
        << "screenshots", "x-a.png" >>, << "screenshots", "auth_cookies.json" >> } }

\* faulty variant: only the entries of the top directory are compared with ignoreFiles
copyDirTopOnly(source, destination) ==
    destination \cup { p \in source : Head(p) \notin ignoreFiles }

\* lines 32-46
RECURSIVE copyDir(_, _)
copyDir(source, destination) ==
    LET names == { Head(p) : p \in source }
        isDirectory(n) == \E p \in source : Head(p) = n /\ Len(p) > 1
        below(tree, n) == { Tail(p) : p \in { q \in tree : Head(q) = n /\ Len(q) > 1 } }
        copied(n) ==
            IF isDirectory(n)
              THEN { << n >> \o p : p \in copyDir(below(source, n), below(destination, n)) }
              ELSE { << n >> }
    IN  destination \cup UNION { copied(n) : n \in { m \in names : m \notin ignoreFiles } }

\* lines 48-53: fs.rmSync(dir, { recursive: true, force: true }) when it exists
rmSync(docs, name) == [d \in DOMAIN docs \ {name} |-> docs[d]]

\* lines 55-56: copyDir(reportDir, path.join(docsReportsDir, name))
copyInto(docs, name, tree) ==
    [d \in DOMAIN docs \cup {name} |->
        IF d = name
          THEN copyDir(tree, IF name \in DOMAIN docs THEN docs[name] ELSE {})
          ELSE docs[d]]

\* line 98: fs.writeFileSync(path.join(latestDir, "index.html"), latestIndex)
writeLatestIndex(docs) == [docs EXCEPT !["latest"] = @ \cup { << "index.html" >> }]

\* line 58: readJson of meta.json, with its fallback
metaOf(tree) ==
    IF << "meta.json" >> \in tree
      THEN [targetUrl |-> "https://x/", startedAt |-> "2024-01-01T00:00:00.000Z"]
      ELSE [targetUrl |-> "", startedAt |-> GeneratedAt]

\* lines 63-69
entryOf(stamp, meta) ==
    [ timestamp |-> stamp,
      targetUrl |-> meta.targetUrl,
      generatedAt |-> meta.startedAt,
      summaryPath |-> "./reports/" \o stamp \o "/summary.md",
      flowPath |-> "./reports/" \o stamp \o "/flow.html" ]

\* faulty variant: the entry is put in front without the filter of line 71
updateIndexNoFilter(reports, entry) == Take(<< entry >> \o reports, HistoryLimit)

\* lines 71-72
updateIndex(reports, entry) ==
    Take(<< entry >> \o SelectSeq(reports, LAMBDA item : item.timestamp # entry.timestamp),
         HistoryLimit)

\* line 61: readJson of index.json, with its fallback
readIndex(file) == IF file.exists THEN file.reports ELSE <<>>

\* what k runs on k fresh report directories leave behind
PublishedAfter(k) ==
    [d \in { Stamp(i) : i \in 1..k } \cup (IF k > 0 THEN {"latest"} ELSE {}) |->
        IF d = "latest" THEN copyDir(PlainTree, {}) \cup { << "index.html" >> }
                        ELSE copyDir(PlainTree, {})]

IndexAfter(k) ==
    IF k = 0 THEN NoFile
    ELSE [ exists |-> TRUE,
           reports |-> [i \in 1..Min(k, HistoryLimit) |->
                           entryOf(Stamp(k + 1 - i), metaOf(PlainTree))] ]

InitPublish ==
    /\ DiscoveryAtRest
    /\ FlowAtRest
    /\ CollectorAtRest
    /\ DashboardAtRest
    /\ targetUrl = "https://x/"
    /\ \E k \in {0, HistoryLimit - 1, HistoryLimit} :
         /\ clock = k
         /\ docsReports = PublishedAfter(k)
         /\ indexJson = IndexAfter(k)
         /\ lastRun = IF k = 0 THEN [timestamp |-> "", tree |-> {}]
                               ELSE [timestamp |-> Stamp(k), tree |-> PlainTree]
    /\ pubCount = 0

\* the basenames REPORT_DIR may have: the next fresh directory, "latest", and
\* the directories of the first and of the last entry of the index
StampChoices ==
    LET reports == readIndex(indexJson)
    IN  { Stamp(clock + 1), "latest" }
          \cup (IF reports = <<>> THEN {}
                ELSE { reports[1].timestamp, reports[Len(reports)].timestamp })

\* one run of the script, lines 5-98
Publish ==
    /\ pubCount < MaxPublishes
    /\ pubCount' = pubCount + 1
    /\ \/ \* lines 5-9: REPORT_DIR is not set
          UNCHANGED << docsReports, indexJson, clock, lastRun >>
       \/ \E stamp \in StampChoices, tree \in ReportTrees :
            LET removed == rmSync(rmSync(docsReports, stamp), "latest")
                copied == copyInto(copyInto(removed, stamp, tree), "latest", tree)
                entry == entryOf(stamp, metaOf(tree))
            IN  /\ indexJson' = [ exists |-> TRUE,
                                  reports |-> updateIndex(readIndex(indexJson), entry) ]
                /\ docsReports' = writeLatestIndex(copied)
                /\ clock' = IF stamp = Stamp(clock + 1) THEN clock + 1 ELSE clock
                /\ lastRun' = [timestamp |-> stamp, tree |-> tree]
    /\ UNCHANGED << discoveryVars, flowVars, collectorVars, dashVars >>

NextPublish == Publish

SpecPublish == InitPublish /\ [][NextPublish]_vars

HasCookieFile(tree) == \E p \in tree : \E i \in 1..Len(p) : p[i] = "auth_cookies.json"

\* C34: no published directory, the timestamped ones and latest, holds a file
\* or directory named auth_cookies.json at any depth, whatever the published
\* report directory held.
C34_CookiesNotPublished ==
    \A d \in DOMAIN docsReports : ~HasCookieFile(docsReports[d])

\* a report directory with the cookies file at two depths was published, and
\* its other files arrived in both places
C34_Witness ==
    /\ << "screenshots", "auth_cookies.json" >> \in lastRun.tree
    /\ << "auth_cookies.json" >> \in lastRun.tree
    /\ lastRun.timestamp \in DOMAIN docsReports
    /\ << "screenshots", "x-a.png" >> \in docsReports[lastRun.timestamp]
    /\ << "screenshots", "x-a.png" >> \in docsReports["latest"]

IndexReports == IF indexJson.exists THEN indexJson.reports ELSE <<>>

IndexStamps(reports) == { reports[i].timestamp : i \in 1..Len(reports) }

C35_Index ==
    /\ Len(IndexReports) <= 50
    /\ \A i, j \in 1..Len(IndexReports) :
         IndexReports[i].timestamp = IndexReports[j].timestamp => i = j
    /\ lastRun.timestamp # "" =>
         /\ Len(IndexReports) >= 1
         /\ IndexReports[1].timestamp = lastRun.timestamp

C35_Step ==
    LET old == IndexReports
        new == IndexReports'
        t == lastRun'.timestamp
        pos(e) == CHOOSE i \in 1..Len(old) : old[i] = e
    IN  (pubCount' # pubCount /\ t # "") =>
          /\ new[1].timestamp = t
          /\ \A i \in 2..Len(new) : \E j \in 1..Len(old) : old[j] = new[i]
          /\ \A i \in 2..(Len(new) - 1) : pos(new[i]) < pos(new[i + 1])
          /\ IF t \in IndexStamps(old)
               THEN Len(new) = Len(old) /\ IndexStamps(new) = IndexStamps(old)
               ELSE /\ Len(new) = Min(Len(old) + 1, 50)
                    /\ \A i \in 2..Len(new) : new[i] = old[i - 1]

\* C35: the history index never holds more than 50 entries nor two entries of
\* one timestamp, its first entry is the report published last, and a
\* publish keeps the other entries in their previous order: an indexed
\* timestamp is replaced (same length, same timestamps), a new one is added
\* in front and the entry beyond the 50th is dropped.
C35_HistoryIndex == []C35_Index /\ [][C35_Step]_vars

\* the 51st report pushed the oldest entry out, then the oldest entry left
\* was published again and moved to the front
C35_Witness ==
    /\ clock = 51
    /\ Len(IndexReports) = 50
    /\ IndexReports[1].timestamp = "run-2"
    /\ IndexReports[2].timestamp = "run-51"
    /\ IndexReports[50].timestamp = "run-3"

---------------------------------------------------------------------------
(* The dashboard: App of src/unnamed/part_000.  SpecDashboard covers the
   target field, the token field and its Clear Token button, which enable the
   dispatch button, the two checkboxes of authenticated mode,
   dispatchWorkflow with its POST and its polling interval, and the workflow
   run on the server.  An awaited fetch is a message in flight: the request
   is sent, the server answers it from what it holds at that moment, and the
   handler goes on from its await in a later step, so the answers of two
   pollRuns calls of one interval may be handled in either order and each
   carries the server's state of its own moment.  pollRuns awaits a second
   time for the body of an OK response.  The reports list and the other form
   fields are left out. *)

\* the requests of one behaviour: a dispatch request takes two units of this
\* (it starts an interval), a runs request one
MaxBudget == 4

\* line 182: the interval is cleared once attempts exceeds this
PollLimit == 40

TokenChoices == {"", "ghp_x"}

TargetFieldChoices == {"", "https://x/"}

\* line 87
canDispatch(tok, url) == trim(tok) # "" /\ trim(url) # ""

\* lines 89-102: dispatchWorkflow up to the POST; send tells whether it is made
dispatchStart(can, auth, secrets, st) ==
    IF ~can
      THEN [ runState |-> st.runState, runInfo |-> st.runInfo, send |-> FALSE,
             runMessage |-> "Provide a target URL and a GitHub token with workflow scope." ]
    ELSE IF auth /\ ~secrets
      THEN [ runState |-> st.runState, runInfo |-> st.runInfo, send |-> FALSE,
             runMessage |-> "Enable authenticated mode only after setting repo secrets." ]
      ELSE [ runState |-> "dispatching", runMessage |-> "", runInfo |-> NoRun,
             send |-> TRUE ]

\* lines 127-132
dispatchFailed(status) ==
    [ runState |-> "failed",
      runMessage |-> "Dispatch failed (" \o ToString(status)
                        \o "). Check token scope and repo settings." ]

\* lines 148-176: pollRuns after its fetch resolved; done is its return value
pollRuns(answer, st) ==
    IF answer.kind = "not_ok"
      THEN [ runState |-> "failed", runInfo |-> st.runInfo, done |-> TRUE,
             runMessage |-> "Unable to read workflow runs. Check token scope." ]
    ELSE IF answer.match = NoRun
      THEN [ runState |-> st.runState, runInfo |-> st.runInfo, done |-> FALSE,
             runMessage |-> st.runMessage ]
    ELSE IF answer.match.status = "completed"
      THEN IF answer.match.conclusion = "success"
             THEN [ runState |-> "completed", runInfo |-> answer.match, done |-> TRUE,
                    runMessage |-> "Analysis complete. The latest report is ready." ]
             ELSE [ runState |-> "failed", runInfo |-> answer.match, done |-> TRUE,
                    runMessage |-> "Workflow completed with errors. Check the Actions logs." ]
      ELSE [ runState |-> IF answer.match.status = "in_progress"
                            THEN "in_progress" ELSE "queued",
             runInfo |-> answer.match, done |-> FALSE,
             runMessage |-> "Workflow is running. Refresh reports once it completes." ]

\* the dispatch requests the server accepted, handled by the page or not yet
Accepted ==
    Cardinality({ d \in 1..Len(dispatches) : dispatches[d].status = 204 })

\* line 156, runs.find(run => new Date(run.created_at) >= startedAt) on the
\* runs listed newest first: the newest run when it was created at or after
\* startedAt, none otherwise.  Time is counted in runs created: startedAt is
\* the number of runs that existed when line 137 ran.
findRun(run, startedAt) == IF run.id > startedAt THEN run ELSE NoRun

\* what the server answers the runs request of dispatch d, as it is when it
\* answers: a non-OK response, an OK response whose body cannot be read, or
\* the runs it holds
PollAnswers(d) ==
    { [kind |-> "not_ok"], [kind |-> "unreadable"],
      [kind |-> "runs", match |-> findRun(serverRun, dispatches[d].startedAt)] }

InitDashboard ==
    /\ DiscoveryAtRest
    /\ FlowAtRest
    /\ CollectorAtRest
    /\ PublishAtRest
    /\ targetUrl = "https://x/"
    /\ uiAuthenticated = FALSE
    /\ secretsConfirmed = FALSE
    /\ runInfo = NoRun
    /\ polls = {}
    /\ ticks = 0
    /\ serverRun = NoRun
    /\ \/ \* lines 39-59: the page was just loaded; the token is the stored one
          /\ token \in TokenChoices
          /\ uiTargetUrl = ""
          /\ runState = "idle"
          /\ runMessage = ""
          /\ dispatches = <<>>
       \/ \* a dispatch was accepted and PollLimit - 1 polls found no run yet
          /\ token = "ghp_x"
          /\ uiTargetUrl = "https://x/"
          /\ runState = "queued"
          /\ runMessage = "Workflow dispatched. Waiting for the runner to start..."
          /\ dispatches = << [phase |-> "polling", attempts |-> PollLimit - 1,
                               startedAt |-> 0, token |-> "ghp_x",
                               status |-> 204] >>

dashRest == << discoveryVars, flowVars, collectorVars, publishVars >>

runVars == << runState, runMessage, runInfo, dispatches, polls, ticks, serverRun >>

\* line 229: onChange of the target field
SetTargetUrl ==
    /\ \E v \in TargetFieldChoices : uiTargetUrl' = v
    /\ UNCHANGED << dashRest, runVars, token, uiAuthenticated, secretsConfirmed >>

\* line 306: onChange of the token field
SetToken ==
    /\ \E v \in TokenChoices : token' = v
    /\ UNCHANGED << dashRest, runVars, uiTargetUrl, uiAuthenticated, secretsConfirmed >>

\* line 310: the Clear Token button
ClearToken ==
    /\ token' = ""
    /\ UNCHANGED << dashRest, runVars, uiTargetUrl, uiAuthenticated, secretsConfirmed >>

\* faulty variant: unchecking the box leaves authenticated as it is
secretsChangeKeepsAuth(checked, auth) == auth

\* lines 279-284: authenticated after onChange of the secrets-confirmed box
secretsChange(checked, auth) == IF ~checked THEN FALSE ELSE auth

\* lines 267-273: the authenticated box, disabled while secrets are not confirmed
ToggleAuthenticated ==
    /\ secretsConfirmed
    /\ uiAuthenticated' = ~uiAuthenticated
    /\ UNCHANGED << dashRest, runVars, token, uiTargetUrl, secretsConfirmed >>

\* lines 276-286: the secrets-confirmed box
ToggleSecretsConfirmed ==
    /\ secretsConfirmed' = ~secretsConfirmed
    /\ uiAuthenticated' = secretsChange(~secretsConfirmed, uiAuthenticated)
    /\ UNCHANGED << dashRest, runVars, token, uiTargetUrl >>

\* line 288 and lines 89-125: a click on the button, enabled while canDispatch
\* holds; the handler runs up to its first await.  The closure keeps the token
\* of the click for the Authorization header of its requests (lines 120, 143).
ClickDispatch ==
    /\ canDispatch(token, uiTargetUrl)
    /\ 2 * Len(dispatches) + ticks + 2 <= MaxBudget
    /\ LET r == dispatchStart(canDispatch(token, uiTargetUrl), uiAuthenticated,
                              secretsConfirmed,
                              [runState |-> runState, runInfo |-> runInfo])
       IN  /\ runState' = r.runState
           /\ runMessage' = r.runMessage
           /\ runInfo' = r.runInfo
           /\ dispatches' = IF r.send
                              THEN Append(dispatches,
                                          [phase |-> "awaiting", attempts |-> 0,
                                           startedAt |-> 0, token |-> trim(token),
                                           status |-> 0])
                              ELSE dispatches
    /\ UNCHANGED << dashRest, token, uiTargetUrl, uiAuthenticated, secretsConfirmed,
                    polls, ticks, serverRun >>

\* lines 117-137: the POST resolves or rejects.  The await is in no try block:
\* a fetch that got no answer rejects and ends the handler.  A non-OK status
\* sets failed; otherwise startedAt is the time of this step, counted in the
\* runs the server has created by now.
DispatchResponse ==
    \E d \in 1..Len(dispatches) :
        /\ dispatches[d].phase \in {"awaiting", "answered"}
        /\ IF dispatches[d].phase = "awaiting"
             THEN /\ dispatches' = [dispatches EXCEPT ![d].phase = "rejected"]
                  /\ UNCHANGED << runState, runMessage >>
           ELSE IF dispatches[d].status # 204
             THEN /\ dispatches' = [dispatches EXCEPT ![d].phase = "not_ok"]
                  /\ runState' = dispatchFailed(dispatches[d].status).runState
                  /\ runMessage' = dispatchFailed(dispatches[d].status).runMessage
             ELSE /\ dispatches' = [dispatches EXCEPT ![d].phase = "polling",
                                                     ![d].startedAt = serverRun.id]
                  /\ runState' = "queued"
                  /\ runMessage' = "Workflow dispatched. Waiting for the runner to start..."
        /\ UNCHANGED << dashRest, token, uiTargetUrl, uiAuthenticated, secretsConfirmed,
                        runInfo, polls, ticks, serverRun >>

\* lines 178-181 and 139-146: the interval fires; attempts is counted and the
\* runs request is sent
Tick ==
    \E d \in 1..Len(dispatches) :
        /\ dispatches[d].phase = "polling"
        /\ 2 * Len(dispatches) + ticks + 1 <= MaxBudget
        /\ ticks' = ticks + 1
        /\ dispatches' = [dispatches EXCEPT ![d].attempts = @ + 1]
        /\ polls' = polls \cup { [d |-> d, n |-> dispatches[d].attempts + 1,
                                 stage |-> "sent", answer |-> [kind |-> "pending"]] }
        /\ UNCHANGED << dashRest, token, uiTargetUrl, uiAuthenticated, secretsConfirmed,
                        runState, runMessage, runInfo, serverRun >>

\* the server answers a request the page has sent; the page has not seen the
\* answer yet.  The POST of line 117 is accepted (204) or refused; the runs
\* request of line 141 is refused or gets the runs the server holds at that
\* moment.
ServerAnswer ==
    /\ \/ \E d \in 1..Len(dispatches) : \E status \in {204, 401, 404} :
             /\ dispatches[d].phase = "awaiting"
             /\ dispatches' = [dispatches EXCEPT ![d].phase = "answered",
                                                ![d].status = status]
             /\ UNCHANGED polls
       \/ \E p \in polls : \E answer \in PollAnswers(p.d) :
             /\ p.stage = "sent"
             /\ polls' = (polls \ {p}) \cup { [p EXCEPT !.stage = "answered",
                                                        !.answer = answer] }
             /\ UNCHANGED dispatches
    /\ UNCHANGED << dashRest, token, uiTargetUrl, uiAuthenticated, secretsConfirmed,
                    runState, runMessage, runInfo, ticks, serverRun >>

\* lines 182-184: after pollRuns returned done, the callback clears the
\* interval or not; attempts is the counter as it is then
afterPoll(list, d, done) ==
    IF list[d].phase = "polling" /\ (done \/ list[d].attempts > PollLimit)
      THEN [list EXCEPT ![d].phase = IF done THEN "done" ELSE "expired"]
      ELSE list

\* lines 141-154: the fetch of one pollRuns call settles.  A fetch that got
\* no answer rejects and ends the call with nothing set; a non-OK response
\* sets failed and the callback clears the interval; an OK response goes on to
\* read its body.
PollResponse ==
    \E p \in polls :
        /\ p.stage \in {"sent", "answered"}
        /\ IF p.stage = "sent"
             THEN /\ polls' = polls \ {p}
                  /\ UNCHANGED << runState, runMessage, runInfo, dispatches >>
           ELSE IF p.answer.kind = "not_ok"
             THEN LET r == pollRuns(p.answer, [runState |-> runState,
                                               runMessage |-> runMessage,
                                               runInfo |-> runInfo])
                  IN  /\ polls' = polls \ {p}
                      /\ runState' = r.runState
                      /\ runMessage' = r.runMessage
                      /\ runInfo' = r.runInfo
                      /\ dispatches' = afterPoll(dispatches, p.d, r.done)
             ELSE /\ polls' = (polls \ {p}) \cup { [p EXCEPT !.stage = "body"] }
                  /\ UNCHANGED << runState, runMessage, runInfo, dispatches >>
        /\ UNCHANGED << dashRest, token, uiTargetUrl, uiAuthenticated, secretsConfirmed,
                        ticks, serverRun >>

\* lines 154-184: runResponse.json() settles.  The rest of pollRuns runs on the
\* runs the server sent, then the callback clears the interval or not; a body
\* that cannot be read rejects the call with nothing set.
PollBody ==
    \E p \in polls :
        /\ p.stage = "body"
        /\ polls' = polls \ {p}
        /\ IF p.answer.kind = "unreadable"
             THEN UNCHANGED << runState, runMessage, runInfo, dispatches >>
             ELSE LET r == pollRuns(p.answer, [runState |-> runState,
                                               runMessage |-> runMessage,
                                               runInfo |-> runInfo])
                  IN  /\ runState' = r.runState
                      /\ runMessage' = r.runMessage
                      /\ runInfo' = r.runInfo
                      /\ dispatches' = afterPoll(dispatches, p.d, r.done)
        /\ UNCHANGED << dashRest, token, uiTargetUrl, uiAuthenticated, secretsConfirmed,
                        ticks, serverRun >>

\* the workflow run on the server: created after an accepted dispatch, then
\* queued, in_progress, completed with a conclusion
ServerStep ==
    /\ \/ /\ serverRun.id < Accepted
          /\ serverRun' = [id |-> serverRun.id + 1, status |-> "queued",
                           conclusion |-> "null"]
       \/ /\ serverRun # NoRun
          /\ serverRun.status = "queued"
          /\ serverRun' = [serverRun EXCEPT !.status = "in_progress"]
       \/ /\ serverRun # NoRun
          /\ serverRun.status = "in_progress"
          /\ \E c \in {"success", "failure"} :
                serverRun' = [serverRun EXCEPT !.status = "completed", !.conclusion = c]
    /\ UNCHANGED << dashRest, token, uiTargetUrl, uiAuthenticated, secretsConfirmed,
                    runState, runMessage, runInfo, dispatches, polls, ticks >>

NextDashboard ==
    \/ SetTargetUrl
    \/ SetToken
    \/ ClearToken
    \/ ToggleAuthenticated
    \/ ToggleSecretsConfirmed
    \/ ClickDispatch
    \/ DispatchResponse
    \/ Tick
    \/ ServerAnswer
    \/ PollResponse
    \/ PollBody
    \/ ServerStep

SpecDashboard == InitDashboard /\ [][NextDashboard]_vars

TerminalRunState == {"completed", "failed"}

C36_Step ==
    \A p \in polls :
        ( /\ polls' = polls \ {p}
          /\ p.d = Len(dispatches)
          /\ Len(dispatches') = Len(dispatches)
          /\ dispatches[p.d].phase = "done"
          /\ runState \in TerminalRunState )
        => runState' \notin {"queued", "in_progress"}

\* C36: once the polling of the last dispatch has ended with runState
\* completed or failed, the response of a poll of that dispatch that was still
\* in flight does not set runState to queued or in_progress.
C36_Original == [][C36_Step]_vars

C37_Step ==
    \A d \in 1..Len(dispatches) :
        ( /\ dispatches[d].phase \in {"awaiting", "answered"}
          /\ dispatches'[d].phase \in {"not_ok", "rejected"} )
        => /\ runState' = "failed"
           /\ runMessage' # ""
           /\ dispatches'[d].attempts = 0

\* C37: when the dispatch request gets a non-OK response or its fetch is
\* rejected, runState becomes failed, runMessage is set, and the polling
\* interval of that dispatch is not started.
C37_Original == [][C37_Step]_vars

\* C38: authenticated is set only while secretsConfirmed is, and
\* dispatchWorkflow called with authenticated set and secrets not confirmed
\* makes no request and keeps runState, whether the button was enabled or not.
C38_AuthNeedsSecrets ==
    /\ uiAuthenticated => secretsConfirmed
    /\ \A can \in BOOLEAN :
         LET r == dispatchStart(can, TRUE, FALSE,
                                [runState |-> runState, runInfo |-> runInfo])
         IN  ~r.send /\ r.runState = runState /\ r.runMessage # ""

\* both boxes were checked and an authenticated dispatch was sent
C38_Witness ==
    /\ uiAuthenticated
    /\ secretsConfirmed
    /\ runState = "dispatching"
    /\ Len(dispatches) = 1

=============================================================================
